---- MODULE Spec2Model ----
(***************************************************************************)
(* A model of the SMTP server session of smtp.go: the command loop of      *)
(* smtpserver/session.go, its handlers, and the part of the wire codec     *)
(* (internal/textproto/conn.go) the session relies on for STARTTLS.        *)
(*                                                                         *)
(* One connection is modelled.  A command line is a record [verb, args]    *)
(* as the client typed it; the buffered reader of the codec is the         *)
(* sequence of lines already read from the transport but not yet parsed,   *)
(* each tagged with the transport it was received through.                 *)
(***************************************************************************)
EXTENDS Integers, Sequences, FiniteSets, TLC

(***************************************************************************)
(* Bounds of the model.                                                    *)
(***************************************************************************)
MaxInvalid   == 2   \* the value of max_invalid_commands when it is enabled
MaxRcpt      == 2   \* the value of max_recipients
MaxPipelined == 1   \* lines that one transport read can buffer behind a line
MaxBdat      == 2   \* largest BDAT buffer the model lets accumulate
MaxSize      == 2   \* the value of max_message_size
NConn        == 3   \* connections that dial a server with a connection cap
NDial        == 2   \* connections that dial a server without one, or one shut down
MaxConns     == 1   \* the value of max_connections when it is enabled

(***************************************************************************)
(* sessionState (session.go:22-28).                                        *)
(***************************************************************************)
stateNew     == 0
stateGreeted == 1
stateMail    == 2
stateRcpt    == 3
stateData    == 4

(***************************************************************************)
(* Reply codes (reply.go) and enhanced codes (enhancedcode.go).            *)
(***************************************************************************)
ReplyServiceReady        == 220
ReplyServiceClosing      == 221
ReplyAuthOK              == 235
ReplyOK                  == 250
ReplyCannotVRFY          == 252
ReplyAuthContinue        == 334
ReplyStartMailInput      == 354
ReplyServiceNotAvailable == 421
ReplyLocalError          == 451
ReplyInsufficientStorage == 452
ReplySyntaxError         == 500
ReplySyntaxParamError    == 501
ReplyCommandNotImpl      == 502
ReplyBadSequence         == 503
ReplyAuthRequired        == 530
ReplyAuthFailed          == 535
ReplyMailboxNotFound     == 550
ReplyTransactionFailed   == 554

EnhancedCodeZero              == <<0, 0, 0>>
EnhancedCodeOK                == <<2, 0, 0>>
EnhancedCodeOtherAddress      == <<2, 1, 0>>
EnhancedCodeDestValid         == <<2, 1, 5>>
EnhancedCodeBadDest           == <<5, 1, 1>>
EnhancedCodeBadDestSyntax     == <<5, 1, 3>>
EnhancedCodeBadSenderSyntax   == <<5, 1, 7>>
EnhancedCodeOtherNetwork      == <<4, 4, 0>>
EnhancedCodeInvalidCommand    == <<5, 5, 1>>
EnhancedCodeSyntaxError       == <<5, 5, 2>>
EnhancedCodeTooManyRecipients == <<5, 5, 3>>
EnhancedCodeInvalidParams     == <<5, 5, 4>>
EnhancedCodeAuthRequired      == <<5, 7, 0>>
EnhancedCodeAuthCredentials   == <<5, 7, 8>>

VARIABLES
  server,    \* the Server's configuration, fixed at construction
  sess,      \* the session record (session.go:31-45)
  conn,      \* the codec: [net: the transport, r: the buffered reader]
             \* (r is lines read ahead; in SpecBdat, the unread bytes)
  alive,     \* FALSE once the transport has failed for good
  pc,        \* where the session's goroutine is blocked
  pend,      \* the handler call in progress (BDAT size/LAST, AUTH mechanism)
  lastCmd,   \* outcome of the latest ReadLine of the command loop
  replies,   \* the replies written since that ReadLine
  onData,    \* the DataHandler call made since that ReadLine, if any
  nInvalid,  \* number of unrecognized or NUL-containing command lines read
  hist       \* history: [awaitHello: a TLS upgrade succeeded and no EHLO/HELO
             \* was accepted since, dropped: lines ReplaceConn discarded];
             \* in SpecBdat, what the client wrote and the calls made

sessionVars == <<server, sess, conn, alive, pc, pend, lastCmd, replies, onData, nInvalid, hist>>

\* The server around the sessions (server.go): the accept loop of Serve, the
\* admission semaphore, the WaitGroup, Shutdown, and every connection's
\* session seen from outside.
VARIABLES
  maxConnections, \* Server.maxConnections, fixed at construction
  quit,           \* Server.quit is closed
  lnClosed,       \* the listener is closed
  acceptLoop,     \* Serve: [pc, conn, busy] (the connection Accept returned
                  \* and how many sessions were running when it returned)
  connSem,        \* number of slots of Server.connSem that are taken
  wg,             \* the counter of Server.wg
  shut,           \* Shutdown: [pc, done] (done: wg.Wait returned, done closed)
  conns,          \* per connection: its session goroutine and its watcher
  crashed         \* the process died of an unrecovered panic

serverVars == <<maxConnections, quit, lnClosed, acceptLoop, connSem, wg, shut, conns, crashed>>

\* The dot codec of the DATA body taken alone (internal/textproto/dot.go): a
\* dotWriter writing a body to a buffer and a dotReader reading that buffer.
VARIABLES
  dot             \* [pc, body, todo, dw: the dotWriter, trailer, dr: the
                  \* dotReader, out: what its Reads returned so far]

\* The serialisation of one reply taken alone (session.reply, Conn.WriteReply,
\* SMTPError.WireLines), and one client (smtpclient) talking to a server.
VARIABLES
  wire,           \* [pc, err: the SMTPError, out: the reply lines written]
  cli             \* the client and the server it talks to: [pc, ...]

vars == <<sessionVars, serverVars, dot, wire, cli>>

\* No dot codec in use.
DotIdle == [pc |-> "idle"]

NoCall == [called |-> FALSE, from |-> "", to |-> <<>>, body |-> <<>>]
NoPend == [kind |-> "none", size |-> 0, last |-> FALSE]

(***************************************************************************)
(* The inputs.  A command line is [verb, args, nul]: the text before the   *)
(* first space, the text after it, and whether the line holds a NUL byte.  *)
(* The argument strings are the concrete strings below; the parsers are    *)
(* tabulated on them as the Go code computes them.                         *)
(***************************************************************************)
L(v, a) == [verb |-> v, args |-> a, nul |-> FALSE]

HelloLines == { L("EHLO", "c.test"), L("EHLO", ""),
                L("HELO", "c.test"), L("HELO", "") }
MailLines  == { L("MAIL", "FROM:<a@x>"), L("MAIL", "from:<>"),
                L("MAIL", "FROM:<a@>"), L("MAIL", "<a@x>") }
RcptLines  == { L("RCPT", "TO:<b@y>"), L("RCPT", "TO:<>"), L("RCPT", "<b@y>") }
BdatLines  == { L("BDAT", ""), L("BDAT", "x"), L("BDAT", "-1"),
                L("BDAT", "0"), L("BDAT", "1"),
                L("BDAT", "0 LAST"), L("BDAT", "1 last") }
AuthLines  == { L("AUTH", "PLAIN AGdvb2QAcHc="), L("AUTH", "PLAIN"),
                L("AUTH", "PLAIN !"), L("AUTH", "PLAIN dHdv"), L("AUTH", "LOGIN"),
                L("AUTH", "CRAM-MD5"), L("AUTH", "XOAUTH2") }
OtherLines == { L("DATA", ""), L("rset", ""), L("NOOP", ""),
                L("QUIT", ""), L("VRFY", "u"), L("EXPN", "l"),
                L("STARTTLS", ""), L("GIBBERISH", ""), L("", ""),
                [verb |-> "EHLO", args |-> "c.test", nul |-> TRUE] }

Lines == HelloLines \cup MailLines \cup RcptLines \cup BdatLines
           \cup AuthLines \cup OtherLines

\* Lines a client sends ahead in the same segment as the line before them.
Pipelinable == { L("rset", ""), L("MAIL", "FROM:<a@x>") }

\* The verbs behind which the client of this model sends lines ahead, in the
\* same segment.  None of them reads further input in its handler, so the
\* buffered reader is empty whenever a handler reads a body, a chunk or a
\* SASL response.
PipelineHeads == {"STARTTLS", "RSET"}

\* The lines an AUTH exchange reads after a 334 challenge.
AuthResponses == {"*", "!", "AGdvb2QAcHc=", "dHdv", "Z29vZCBkaWdlc3Q="}

\* A BDAT chunk of k bytes in the specification of the whole session.  The
\* session copies the bytes of a chunk and never looks at them
\* (session.go:424-431), and no property of that specification reads them:
\* they are all written "." there.  SpecBdat reads chunks of every content
\* off the connection's bytes.
Opaque(k) == [i \in 1..k |-> "."]

\* What a call of an application handler yields: "nil" when that handler is
\* not configured (the call is skipped), else its result: nil ("ok"), an
\* *smtp.SMTPError, or another error.
HandlerResults == {"nil", "ok", "smtperr", "err"}
Failed(res) == res \in {"smtperr", "err"}

\* The SMTPError the application's handlers return in this model.
PolicyError == [code |-> ReplyMailboxNotFound, enh |-> EnhancedCodeBadDest,
                msg |-> "Rejected"]

\* The outcomes of a read from the transport inside a handler.
IoResults == {"ok", "timeout", "eof"}

(***************************************************************************)
(* strings.ToUpper on the verbs of the input set.                          *)
(***************************************************************************)
ToUpper(v) ==
  CASE v = "rset" -> "RSET"
    [] v = "starttls" -> "STARTTLS"
    [] OTHER      -> v

\* parseCommand (session.go:162-166): cut at the first space, upper-case the verb.
parseCommand(line) == [verb |-> ToUpper(line.verb), args |-> line.args]

(***************************************************************************)
(* Paths (address.go).  ReversePath{} is the zero value.                   *)
(***************************************************************************)
ZeroPath == [null |-> FALSE, mailbox |-> ""]
NullPath == [null |-> TRUE, mailbox |-> ""]
Parsed(v) == [err |-> FALSE, val |-> v]
ParseError == [err |-> TRUE, val |-> ""]

\* strings.HasPrefix(strings.ToUpper(args), "FROM:")
HasPrefixFROM(args) == args \in {"FROM:<a@x>", "from:<>", "FROM:<a@>"}

\* args[5:], cut at the first space, TrimSpace (session.go:285-287)
MailPathStr(args) ==
  CASE args = "FROM:<a@x>"  -> "<a@x>"
    [] args = "from:<>"     -> "<>"
    [] args = "FROM:<a@>"   -> "<a@>"

\* smtp.ParseReversePath (address.go:88-110)
ParseReversePath(str) ==
  CASE str = "<>"    -> Parsed(NullPath)
    [] str = ""      -> Parsed(NullPath)
    [] str = "<a@x>" -> Parsed([null |-> FALSE, mailbox |-> "a@x"])
    [] OTHER         -> ParseError

\* strings.HasPrefix(strings.ToUpper(args), "TO:")
HasPrefixTO(args) == args \in {"TO:<b@y>", "TO:<>"}

\* args[3:], cut at the first space, TrimSpace (session.go:332-334)
RcptPathStr(args) ==
  CASE args = "TO:<b@y>" -> "<b@y>"
    [] args = "TO:<>"    -> "<>"

\* smtp.ParseForwardPath (address.go:114-132)
ParseForwardPath(str) ==
  CASE str = "<b@y>" -> Parsed("b@y")
    [] OTHER         -> ParseError

(***************************************************************************)
(* BDAT arguments: strings.Fields, Sscanf("%d"), LAST (session.go:407-419) *)
(***************************************************************************)
BdatFields(args) ==
  CASE args = ""       -> <<>>
    [] args = "x"      -> <<"x">>
    [] args = "-1"     -> <<"-1">>
    [] args = "0"      -> <<"0">>
    [] args = "1"      -> <<"1">>
    [] args = "2"      -> <<"2">>
    [] args = "3"      -> <<"3">>
    [] args = "0 LAST" -> <<"0", "LAST">>
    [] args = "1 LAST" -> <<"1", "LAST">>
    [] args = "2 LAST" -> <<"2", "LAST">>
    [] args = "3 LAST" -> <<"3", "LAST">>
    [] args = "1 last" -> <<"1", "last">>

\* fmt.Sscanf(parts[0], "%d", &size)
ScanSize(field) ==
  CASE field = "0"  -> Parsed(0)
    [] field = "1"  -> Parsed(1)
    [] field = "2"  -> Parsed(2)
    [] field = "3"  -> Parsed(3)
    [] field = "-1" -> Parsed(-1)
    [] OTHER        -> ParseError

IsLAST(field) == field \in {"LAST", "last"}

(***************************************************************************)
(* AUTH arguments and SASL responses.                                      *)
(***************************************************************************)
\* strings.Cut(args, " ") and ToUpper of the mechanism (session.go:515-516)
AuthMechanism(args) ==
  CASE args \in {"PLAIN AGdvb2QAcHc=", "PLAIN", "PLAIN !", "PLAIN dHdv"} -> "PLAIN"
    [] args = "LOGIN"    -> "LOGIN"
    [] args = "CRAM-MD5" -> "CRAM-MD5"
    [] args = "XOAUTH2"  -> "XOAUTH2"
    [] OTHER             -> ""

AuthInitialResp(args) ==
  CASE args = "PLAIN AGdvb2QAcHc=" -> "AGdvb2QAcHc="
    [] args = "PLAIN !"            -> "!"
    [] args = "PLAIN dHdv"         -> "dHdv"
    [] OTHER                       -> ""

\* base64Decode (session.go:692-694).  Decoded bytes are a sequence of runs
\* of non-NUL bytes and NUL bytes: "AGdvb2QAcHc=" is NUL good NUL pw, "dHdv" is
\* two, "Z29vZCBkaWdlc3Q=" is "good digest"; "!" and "*" are not base64.
NUL == [nul |-> TRUE]
Run(str) == [nul |-> FALSE, str |-> str]
base64Decode(str) ==
  CASE str = "AGdvb2QAcHc="     -> Parsed(<<NUL, Run("good"), NUL, Run("pw")>>)
    [] str = "dHdv"             -> Parsed(<<Run("two")>>)
    [] str = "Z29vZCBkaWdlc3Q=" -> Parsed(<<Run("good digest")>>)
    [] str = ""                 -> Parsed(<<>>)
    [] OTHER                    -> ParseError

\* splitNull (session.go:675-686): the fields between the NUL bytes.
RECURSIVE splitFrom(_, _, _)
splitFrom(data, i, cur) ==
  IF i > Len(data) THEN <<cur>>
  ELSE IF data[i].nul THEN <<cur>> \o splitFrom(data, i + 1, "")
  ELSE splitFrom(data, i + 1, data[i].str)
splitNull(data) == splitFrom(data, 1, "")

\* strings.LastIndex(resp, " ") >= 0 (session.go:650-651)
HasSpace(data) == \E i \in 1..Len(data) : ~data[i].nul /\ data[i].str = "good digest"

(***************************************************************************)
(* Replies.  A reply is [code, enh, lines]; session.reply writes one line  *)
(* carrying the enhanced code when it is not zero (session.go:169-177),    *)
(* replyMulti writes the lines as given (session.go:180-182).              *)
(***************************************************************************)
reply(code, enhanced, msg) == [code |-> code, enh |-> enhanced, lines |-> <<msg>>]
replyMulti(code, lines) == [code |-> code, enh |-> EnhancedCodeZero, lines |-> lines]

\* The reply to a handler error (session.go:297-301 and alike).
errorReply_AlwaysInternal(res, fallback) == fallback
errorReply(res, fallback) ==
  IF res = "smtperr" THEN reply(PolicyError.code, PolicyError.enh, PolicyError.msg)
  ELSE fallback

internalError == reply(ReplyLocalError, EnhancedCodeOtherNetwork, "Internal error")

\* What a handler returns to the command loop.
Ret(s, out) == [sess |-> s, out |-> out, pc |-> "cmd", pend |-> NoPend, onData |-> NoCall]

(***************************************************************************)
(* The handlers of session.go.  Each is an operator from the session       *)
(* record (and the command's arguments and the application handler's       *)
(* result) to what it leaves behind: the session, the replies written, and *)
(* where the goroutine waits next.                                         *)
(***************************************************************************)

\* resetTransaction (session.go:731-739)
resetTransaction(s) ==
  [s EXCEPT !.reversePath = ZeroPath, !.forwardPaths = <<>>, !.bdatBuffer = <<>>]

\* The EHLO response lines (session.go:209-230); the first is the greeting.
ehloLines_StartTLSWheneverConfigured(s) ==
  <<"Hello">>
    \o (IF server.maxMessageSize > 0 THEN <<"SIZE">> ELSE <<>>)
    \o <<"PIPELINING", "8BITMIME", "ENHANCEDSTATUSCODES", "DSN", "SMTPUTF8", "CHUNKING">>
    \o (IF server.tlsConfig THEN <<"STARTTLS">> ELSE <<>>)
    \o (IF server.authHandler /\ ~s.authenticated
          THEN <<"AUTH PLAIN LOGIN CRAM-MD5">> ELSE <<>>)
ehloLines(s) ==
  <<"Hello">>
    \o (IF server.maxMessageSize > 0 THEN <<"SIZE">> ELSE <<>>)
    \o <<"PIPELINING", "8BITMIME", "ENHANCEDSTATUSCODES", "DSN", "SMTPUTF8", "CHUNKING">>
    \o (IF server.tlsConfig /\ ~s.tls THEN <<"STARTTLS">> ELSE <<>>)
    \o (IF server.authHandler /\ ~s.authenticated
          THEN <<"AUTH PLAIN LOGIN CRAM-MD5">> ELSE <<>>)

\* handleEHLO (session.go:185-233)
handleEHLO_NoReset(s, args, res) ==
  IF args = ""
    THEN Ret(s, <<reply(ReplySyntaxParamError, EnhancedCodeSyntaxError, "EHLO requires a hostname")>>)
  ELSE IF Failed(res)
    THEN Ret(s, <<errorReply(res, internalError)>>)
  ELSE LET s1 == [s EXCEPT !.clientHostname = args,
                           !.esmtp = TRUE,
                           !.state = stateGreeted]
       IN Ret(s1, <<replyMulti(ReplyOK, ehloLines(s1))>>)
handleEHLO(s, args, res) ==
  IF args = ""
    THEN Ret(s, <<reply(ReplySyntaxParamError, EnhancedCodeSyntaxError, "EHLO requires a hostname")>>)
  ELSE IF Failed(res)
    THEN Ret(s, <<errorReply(res, internalError)>>)
  ELSE LET s1 == [resetTransaction(s) EXCEPT !.clientHostname = args,
                                              !.esmtp = TRUE,
                                              !.state = stateGreeted]
       IN Ret(s1, <<replyMulti(ReplyOK, ehloLines(s1))>>)

\* handleHELO (session.go:236-259)
handleHELO(s, args, res) ==
  IF args = ""
    THEN Ret(s, <<reply(ReplySyntaxParamError, EnhancedCodeSyntaxError, "HELO requires a hostname")>>)
  ELSE IF Failed(res)
    THEN Ret(s, <<errorReply(res, internalError)>>)
  ELSE LET s1 == [resetTransaction(s) EXCEPT !.clientHostname = args,
                                              !.esmtp = FALSE,
                                              !.state = stateGreeted]
       IN Ret(s1, <<reply(ReplyOK, EnhancedCodeOK, "Hello")>>)

\* handleMAIL (session.go:262-311)
handleMAIL_NoSubmissionCheck(s, args, res) ==
  IF s.state < stateGreeted
    THEN Ret(s, <<reply(ReplyBadSequence, EnhancedCodeInvalidCommand, "Send EHLO/HELO first")>>)
  ELSE IF s.state >= stateMail
    THEN Ret(s, <<reply(ReplyBadSequence, EnhancedCodeInvalidCommand, "MAIL already specified")>>)
  ELSE IF ~HasPrefixFROM(args)
    THEN Ret(s, <<reply(ReplySyntaxParamError, EnhancedCodeSyntaxError, "Syntax: MAIL FROM:<address>")>>)
  ELSE LET reversePath == ParseReversePath(MailPathStr(args)) IN
    IF reversePath.err
      THEN Ret(s, <<reply(ReplySyntaxParamError, EnhancedCodeBadSenderSyntax, "Invalid sender address")>>)
    ELSE IF Failed(res)
      THEN Ret(s, <<errorReply(res, internalError)>>)
    ELSE Ret([s EXCEPT !.reversePath = reversePath.val,
                       !.forwardPaths = <<>>,
                       !.state = stateMail],
             <<reply(ReplyOK, EnhancedCodeOtherAddress, "Originator ok")>>)
handleMAIL(s, args, res) ==
  IF s.state < stateGreeted
    THEN Ret(s, <<reply(ReplyBadSequence, EnhancedCodeInvalidCommand, "Send EHLO/HELO first")>>)
  ELSE IF s.state >= stateMail
    THEN Ret(s, <<reply(ReplyBadSequence, EnhancedCodeInvalidCommand, "MAIL already specified")>>)
  ELSE IF server.submissionMode /\ ~s.authenticated
    THEN Ret(s, <<reply(ReplyAuthRequired, EnhancedCodeAuthRequired, "Authentication required")>>)
  ELSE IF ~HasPrefixFROM(args)
    THEN Ret(s, <<reply(ReplySyntaxParamError, EnhancedCodeSyntaxError, "Syntax: MAIL FROM:<address>")>>)
  ELSE LET reversePath == ParseReversePath(MailPathStr(args)) IN
    IF reversePath.err
      THEN Ret(s, <<reply(ReplySyntaxParamError, EnhancedCodeBadSenderSyntax, "Invalid sender address")>>)
    ELSE IF Failed(res)
      THEN Ret(s, <<errorReply(res, internalError)>>)
    ELSE Ret([s EXCEPT !.reversePath = reversePath.val,
                       !.forwardPaths = <<>>,
                       !.state = stateMail],
             <<reply(ReplyOK, EnhancedCodeOtherAddress, "Originator ok")>>)

\* handleRCPT (session.go:314-359)
handleRCPT_CapOffByOne(s, args, res) ==
  IF s.state < stateMail
    THEN Ret(s, <<reply(ReplyBadSequence, EnhancedCodeInvalidCommand, "Send MAIL first")>>)
  ELSE IF Len(s.forwardPaths) > server.maxRecipients
    THEN Ret(s, <<reply(ReplyInsufficientStorage, EnhancedCodeTooManyRecipients, "Too many recipients")>>)
  ELSE IF ~HasPrefixTO(args)
    THEN Ret(s, <<reply(ReplySyntaxParamError, EnhancedCodeSyntaxError, "Syntax: RCPT TO:<address>")>>)
  ELSE LET forwardPath == ParseForwardPath(RcptPathStr(args)) IN
    IF forwardPath.err
      THEN Ret(s, <<reply(ReplySyntaxParamError, EnhancedCodeBadDestSyntax, "Invalid recipient address")>>)
    ELSE IF Failed(res)
      THEN Ret(s, <<errorReply(res, internalError)>>)
    ELSE Ret([s EXCEPT !.forwardPaths = Append(@, forwardPath.val),
                       !.state = IF @ < stateRcpt THEN stateRcpt ELSE @],
             <<reply(ReplyOK, EnhancedCodeDestValid, "Recipient ok")>>)
handleRCPT_KeepState(s, args, res) ==
  IF s.state < stateMail
    THEN Ret(s, <<reply(ReplyBadSequence, EnhancedCodeInvalidCommand, "Send MAIL first")>>)
  ELSE IF Len(s.forwardPaths) >= server.maxRecipients
    THEN Ret(s, <<reply(ReplyInsufficientStorage, EnhancedCodeTooManyRecipients, "Too many recipients")>>)
  ELSE IF ~HasPrefixTO(args)
    THEN Ret(s, <<reply(ReplySyntaxParamError, EnhancedCodeSyntaxError, "Syntax: RCPT TO:<address>")>>)
  ELSE LET forwardPath == ParseForwardPath(RcptPathStr(args)) IN
    IF forwardPath.err
      THEN Ret(s, <<reply(ReplySyntaxParamError, EnhancedCodeBadDestSyntax, "Invalid recipient address")>>)
    ELSE IF Failed(res)
      THEN Ret(s, <<errorReply(res, internalError)>>)
    ELSE Ret([s EXCEPT !.forwardPaths = Append(@, forwardPath.val)],
             <<reply(ReplyOK, EnhancedCodeDestValid, "Recipient ok")>>)
handleRCPT(s, args, res) ==
  IF s.state < stateMail
    THEN Ret(s, <<reply(ReplyBadSequence, EnhancedCodeInvalidCommand, "Send MAIL first")>>)
  ELSE IF Len(s.forwardPaths) >= server.maxRecipients
    THEN Ret(s, <<reply(ReplyInsufficientStorage, EnhancedCodeTooManyRecipients, "Too many recipients")>>)
  ELSE IF ~HasPrefixTO(args)
    THEN Ret(s, <<reply(ReplySyntaxParamError, EnhancedCodeSyntaxError, "Syntax: RCPT TO:<address>")>>)
  ELSE LET forwardPath == ParseForwardPath(RcptPathStr(args)) IN
    IF forwardPath.err
      THEN Ret(s, <<reply(ReplySyntaxParamError, EnhancedCodeBadDestSyntax, "Invalid recipient address")>>)
    ELSE IF Failed(res)
      THEN Ret(s, <<errorReply(res, internalError)>>)
    ELSE Ret([s EXCEPT !.forwardPaths = Append(@, forwardPath.val),
                       !.state = IF @ < stateRcpt THEN stateRcpt ELSE @],
             <<reply(ReplyOK, EnhancedCodeDestValid, "Recipient ok")>>)

\* The DataHandler call: its arguments, when the handler is configured.
dataCall(s, res, body) ==
  [called |-> res # "nil", from |-> s.reversePath, to |-> s.forwardPaths, body |-> body]

\* handleDATA up to the 354 reply (session.go:362-373)
handleDATA(s) ==
  IF s.state < stateRcpt
    THEN Ret(s, <<reply(ReplyBadSequence, EnhancedCodeInvalidCommand, "Send RCPT first")>>)
  ELSE [Ret([s EXCEPT !.state = stateData],
            <<reply(ReplyStartMailInput, EnhancedCodeZero, "Start mail input; end with <CRLF>.<CRLF>")>>)
          EXCEPT !.pc = "data"]

\* handleDATA from the DataHandler call on (session.go:375-397)
dataBody_KeepOnError(s, res, body) ==
  IF Failed(res)
    THEN [Ret(s, <<errorReply(res, internalError)>>)
            EXCEPT !.onData = dataCall(s, res, body)]
  ELSE [Ret([resetTransaction(s) EXCEPT !.state = stateGreeted],
            <<reply(ReplyOK, EnhancedCodeOK, "Message accepted")>>)
          EXCEPT !.onData = dataCall(s, res, body)]
dataBody(s, res, body) ==
  LET out == IF Failed(res) THEN errorReply(res, internalError)
             ELSE reply(ReplyOK, EnhancedCodeOK, "Message accepted")
  IN [Ret([resetTransaction(s) EXCEPT !.state = stateGreeted], <<out>>)
        EXCEPT !.onData = dataCall(s, res, body)]

\* handleBDAT once the chunk is read (session.go:431-454)
bdatChunk_LastChunkOnly(s, size, last, chunk, res) ==
  LET s1 == [s EXCEPT !.bdatBuffer = @ \o chunk] IN
  IF last
    THEN LET out == IF Failed(res) THEN errorReply(res, internalError)
                    ELSE reply(ReplyOK, EnhancedCodeOK, "Message accepted")
         IN [Ret([resetTransaction(s1) EXCEPT !.state = stateGreeted], <<out>>)
               EXCEPT !.onData = dataCall(s1, res, chunk)]
    ELSE Ret(s1, <<reply(ReplyOK, EnhancedCodeOK, "bytes received")>>)
bdatChunk(s, size, last, chunk, res) ==
  LET s1 == [s EXCEPT !.bdatBuffer = @ \o chunk] IN
  IF last
    THEN LET out == IF Failed(res) THEN errorReply(res, internalError)
                    ELSE reply(ReplyOK, EnhancedCodeOK, "Message accepted")
         IN [Ret([resetTransaction(s1) EXCEPT !.state = stateGreeted], <<out>>)
               EXCEPT !.onData = dataCall(s1, res, s1.bdatBuffer)]
    ELSE Ret(s1, <<reply(ReplyOK, EnhancedCodeOK, "bytes received")>>)

\* handleBDAT up to the read of the chunk (session.go:400-429)
handleBDAT(s, args, res) ==
  IF s.state < stateRcpt
    THEN Ret(s, <<reply(ReplyBadSequence, EnhancedCodeInvalidCommand, "Send RCPT first")>>)
  ELSE LET parts == BdatFields(args) IN
    IF Len(parts) < 1
      THEN Ret(s, <<reply(ReplySyntaxParamError, EnhancedCodeSyntaxError, "Syntax: BDAT <size> [LAST]")>>)
    ELSE LET size == ScanSize(parts[1])
             last == Len(parts) >= 2 /\ IsLAST(parts[2])
         IN IF size.err \/ size.val < 0
              THEN Ret(s, <<reply(ReplySyntaxParamError, EnhancedCodeSyntaxError, "Invalid BDAT size")>>)
            ELSE IF size.val > 0
              THEN [Ret(s, <<>>) EXCEPT !.pc = "bdat",
                      !.pend = [kind |-> "bdat", size |-> size.val, last |-> last]]
            ELSE bdatChunk(s, 0, last, <<>>, res)

\* handleRSET (session.go:458-464)
handleRSET_KeepState(s) ==
  Ret(resetTransaction(s), <<reply(ReplyOK, EnhancedCodeOK, "Reset ok")>>)
handleRSET(s) ==
  Ret([resetTransaction(s) EXCEPT !.state = IF @ > stateGreeted THEN stateGreeted ELSE @],
      <<reply(ReplyOK, EnhancedCodeOK, "Reset ok")>>)

\* handleNOOP (session.go:467-469)
handleNOOP(s) == Ret(s, <<reply(ReplyOK, EnhancedCodeOK, "OK")>>)

\* handleQUIT and the return that follows it (session.go:135-137, 472-474)
handleQUIT(s) ==
  [Ret(s, <<reply(ReplyServiceClosing, EnhancedCodeOK, "closing connection")>>)
     EXCEPT !.pc = "done"]

\* handleVRFY (session.go:477-493)
handleVRFY(s, args, res) ==
  IF res = "nil"
    THEN Ret(s, <<reply(ReplyCannotVRFY, EnhancedCodeOK, "Cannot VRFY user, but will accept message")>>)
  ELSE IF Failed(res)
    THEN Ret(s, <<errorReply(res, internalError)>>)
  ELSE Ret(s, <<reply(ReplyOK, EnhancedCodeOK, "result")>>)

\* EXPN (session.go:140-141)
handleEXPN(s) ==
  Ret(s, <<reply(ReplyCommandNotImpl, EnhancedCodeInvalidCommand, "EXPN not implemented")>>)

\* The Authenticate call and what follows it (session.go:569-578, 615-624, 662-671)
authenticate_FlagOnRejection(s, res) ==
  IF Failed(res)
    THEN Ret([s EXCEPT !.authenticated = TRUE],
             <<errorReply(res, reply(ReplyAuthFailed, EnhancedCodeAuthCredentials, "Authentication failed"))>>)
  ELSE Ret([s EXCEPT !.authenticated = TRUE],
           <<reply(ReplyAuthOK, EnhancedCodeOK, "Authentication successful")>>)
authenticate(s, res) ==
  IF Failed(res)
    THEN Ret(s, <<errorReply(res, reply(ReplyAuthFailed, EnhancedCodeAuthCredentials, "Authentication failed"))>>)
  ELSE Ret([s EXCEPT !.authenticated = TRUE],
           <<reply(ReplyAuthOK, EnhancedCodeOK, "Authentication successful")>>)

cancelled == reply(ReplySyntaxParamError, EnhancedCodeInvalidCommand, "Authentication cancelled")
invalidBase64 == reply(ReplySyntaxParamError, EnhancedCodeSyntaxError, "Invalid base64")

\* authPLAIN from the decoded response on (session.go:559-578)
plainDecoded(s, decoded, res) ==
  IF decoded.err THEN Ret(s, <<invalidBase64>>)
  ELSE IF Len(splitNull(decoded.val)) # 3
    THEN Ret(s, <<reply(ReplySyntaxParamError, EnhancedCodeSyntaxError, "Invalid PLAIN data")>>)
  ELSE authenticate(s, res)

\* authPLAIN up to the read of the response line (session.go:531-544)
authPLAIN(s, initialResp, res) ==
  IF initialResp # "" /\ initialResp # "="
    THEN plainDecoded(s, base64Decode(initialResp), res)
  ELSE [Ret(s, <<reply(ReplyAuthContinue, EnhancedCodeZero, "")>>) EXCEPT !.pc = "authPlain"]

\* authPLAIN after the response line is read (session.go:548-557)
authPLAINline(s, line, res) ==
  IF line = "*" THEN Ret(s, <<cancelled>>)
  ELSE plainDecoded(s, base64Decode(line), res)

\* authLOGIN up to the read of the user name (session.go:582-585)
authLOGIN(s) ==
  [Ret(s, <<reply(ReplyAuthContinue, EnhancedCodeZero, "VXNlcm5hbWU6")>>)
     EXCEPT !.pc = "authLoginUser"]

\* authLOGIN from the user name to the read of the password (session.go:589-601)
authLOGINuser(s, line) ==
  IF line = "*" THEN Ret(s, <<cancelled>>)
  ELSE IF base64Decode(line).err THEN Ret(s, <<invalidBase64>>)
  ELSE [Ret(s, <<reply(ReplyAuthContinue, EnhancedCodeZero, "UGFzc3dvcmQ6")>>)
          EXCEPT !.pc = "authLoginPass"]

\* authLOGIN after the password line is read (session.go:605-624)
authLOGINpass(s, line, res) ==
  IF line = "*" THEN Ret(s, <<cancelled>>)
  ELSE IF base64Decode(line).err THEN Ret(s, <<invalidBase64>>)
  ELSE authenticate(s, res)

\* authCRAMMD5 up to the read of the response (session.go:628-633)
authCRAMMD5(s) ==
  [Ret(s, <<reply(ReplyAuthContinue, EnhancedCodeZero, "challenge")>>)
     EXCEPT !.pc = "authCram"]

\* authCRAMMD5 after the response line is read (session.go:637-671)
authCRAMline(s, line, res) ==
  IF line = "*" THEN Ret(s, <<cancelled>>)
  ELSE LET decoded == base64Decode(line) IN
    IF decoded.err THEN Ret(s, <<invalidBase64>>)
    ELSE IF ~HasSpace(decoded.val)
      THEN Ret(s, <<reply(ReplySyntaxParamError, EnhancedCodeSyntaxError, "Invalid CRAM-MD5 response")>>)
    ELSE authenticate(s, res)

\* handleAUTH (session.go:496-528)
handleAUTH_NoTransactionCheck(s, args, res) ==
  IF ~server.authHandler
    THEN Ret(s, <<reply(ReplyCommandNotImpl, EnhancedCodeInvalidCommand, "AUTH not available")>>)
  ELSE IF s.state < stateGreeted
    THEN Ret(s, <<reply(ReplyBadSequence, EnhancedCodeInvalidCommand, "Send EHLO/HELO first")>>)
  ELSE IF FALSE
    THEN Ret(s, <<reply(ReplyBadSequence, EnhancedCodeInvalidCommand, "AUTH not allowed during mail transaction")>>)
  ELSE IF s.authenticated
    THEN Ret(s, <<reply(ReplyBadSequence, EnhancedCodeInvalidCommand, "Already authenticated")>>)
  ELSE LET mechanism == AuthMechanism(args) IN
    CASE mechanism = "PLAIN"    -> authPLAIN(s, AuthInitialResp(args), res)
      [] mechanism = "LOGIN"    -> authLOGIN(s)
      [] mechanism = "CRAM-MD5" -> authCRAMMD5(s)
      [] OTHER -> Ret(s, <<reply(ReplySyntaxParamError, EnhancedCodeInvalidParams, "Unrecognized authentication mechanism")>>)
handleAUTH(s, args, res) ==
  IF ~server.authHandler
    THEN Ret(s, <<reply(ReplyCommandNotImpl, EnhancedCodeInvalidCommand, "AUTH not available")>>)
  ELSE IF s.state < stateGreeted
    THEN Ret(s, <<reply(ReplyBadSequence, EnhancedCodeInvalidCommand, "Send EHLO/HELO first")>>)
  ELSE IF s.state >= stateMail
    THEN Ret(s, <<reply(ReplyBadSequence, EnhancedCodeInvalidCommand, "AUTH not allowed during mail transaction")>>)
  ELSE IF s.authenticated
    THEN Ret(s, <<reply(ReplyBadSequence, EnhancedCodeInvalidCommand, "Already authenticated")>>)
  ELSE LET mechanism == AuthMechanism(args) IN
    CASE mechanism = "PLAIN"    -> authPLAIN(s, AuthInitialResp(args), res)
      [] mechanism = "LOGIN"    -> authLOGIN(s)
      [] mechanism = "CRAM-MD5" -> authCRAMMD5(s)
      [] OTHER -> Ret(s, <<reply(ReplySyntaxParamError, EnhancedCodeInvalidParams, "Unrecognized authentication mechanism")>>)

\* handleSTARTTLS up to the handshake (session.go:698-712)
handleSTARTTLS(s) ==
  IF ~server.tlsConfig
    THEN Ret(s, <<reply(ReplyCommandNotImpl, EnhancedCodeInvalidCommand, "STARTTLS not available")>>)
  ELSE IF s.tls
    THEN Ret(s, <<reply(ReplyBadSequence, EnhancedCodeInvalidCommand, "Already running TLS")>>)
  ELSE [Ret(s, <<reply(ReplyServiceReady, EnhancedCodeZero, "Ready to start TLS")>>)
          EXCEPT !.pc = "handshake"]

\* handleSTARTTLS after a successful handshake: the session (session.go:719-725)
upgradeSession_KeepState(s) ==
  [resetTransaction(s) EXCEPT !.tls = TRUE]
upgradeSession(s) ==
  [resetTransaction(s) EXCEPT !.tls = TRUE,
                              !.state = stateNew,
                              !.clientHostname = "",
                              !.esmtp = FALSE]

\* Conn.ReplaceConn (conn.go:47-51): a new transport and new, empty buffers.
ReplaceConn_KeepReader(c, nc) == [c EXCEPT !.net = nc]
ReplaceConn(c, nc) == [net |-> nc, r |-> <<>>]

\* An unrecognized or NUL-containing line (session.go:109-115, 151-156)
invalidCommand_OffByOne(s, msg) ==
  LET s1 == [s EXCEPT !.invalidCmds = @ + 1]
      out == reply(ReplySyntaxError, EnhancedCodeInvalidCommand, msg)
  IN IF server.maxInvalidCmds > 0 /\ s1.invalidCmds > server.maxInvalidCmds
       THEN [Ret(s1, <<out, reply(ReplyServiceNotAvailable, EnhancedCodeOtherNetwork,
                                  "Too many errors, closing connection")>>)
               EXCEPT !.pc = "done"]
     ELSE Ret(s1, <<out>>)
invalidCommand(s, msg) ==
  LET s1 == [s EXCEPT !.invalidCmds = @ + 1]
      out == reply(ReplySyntaxError, EnhancedCodeInvalidCommand, msg)
  IN IF server.maxInvalidCmds > 0 /\ s1.invalidCmds >= server.maxInvalidCmds
       THEN [Ret(s1, <<out, reply(ReplyServiceNotAvailable, EnhancedCodeOtherNetwork,
                                  "Too many errors, closing connection")>>)
               EXCEPT !.pc = "done"]
     ELSE Ret(s1, <<out>>)

\* One iteration of the command loop after ReadLine (session.go:107-157)
dispatch(s, line, res) ==
  IF line.nul THEN invalidCommand(s, "NUL not allowed in commands")
  ELSE LET c == parseCommand(line) IN
    CASE c.verb = "EHLO"     -> handleEHLO(s, c.args, res)
      [] c.verb = "HELO"     -> handleHELO(s, c.args, res)
      [] c.verb = "MAIL"     -> handleMAIL(s, c.args, res)
      [] c.verb = "RCPT"     -> handleRCPT(s, c.args, res)
      [] c.verb = "DATA"     -> handleDATA(s)
      [] c.verb = "RSET"     -> handleRSET(s)
      [] c.verb = "NOOP"     -> handleNOOP(s)
      [] c.verb = "QUIT"     -> handleQUIT(s)
      [] c.verb = "VRFY"     -> handleVRFY(s, c.args, res)
      [] c.verb = "EXPN"     -> handleEXPN(s)
      [] c.verb = "STARTTLS" -> handleSTARTTLS(s)
      [] c.verb = "AUTH"     -> handleAUTH(s, c.args, res)
      [] c.verb = "BDAT"     -> handleBDAT(s, c.args, res)
      [] OTHER               -> invalidCommand(s, "Command not recognized")

(***************************************************************************)
(* The state machine.                                                      *)
(***************************************************************************)
KnownVerbs == {"EHLO", "HELO", "MAIL", "RCPT", "DATA", "RSET", "NOOP", "QUIT",
               "VRFY", "EXPN", "STARTTLS", "AUTH", "BDAT"}

IsInvalidLine(line) == line.nul \/ parseCommand(line).verb \notin KnownVerbs

\* The server configurations explored: WithTLSConfig, WithAuthHandler,
\* WithSubmissionMode, WithMaxInvalidCommands (0 is unlimited).
Config(tlsc, auth, subm, inv) ==
  [tlsConfig |-> tlsc, authHandler |-> auth, submissionMode |-> subm,
   maxInvalidCmds |-> inv, maxRecipients |-> MaxRcpt, maxMessageSize |-> MaxSize]

Configs == { Config(FALSE, TRUE, FALSE, MaxInvalid),
             Config(TRUE, FALSE, FALSE, MaxInvalid),
             Config(TRUE, TRUE, TRUE, MaxInvalid),
             Config(FALSE, FALSE, TRUE, 0) }

\* The connections that dial the server, and a connection before it dials.
\* phase is where its session goroutine is: "none" (not dialed), "accepted"
\* (returned by Accept), "rejected" (refused at capacity), "start" (goroutine
\* spawned), "top" (top of the command loop), "read" (blocked in ReadLine),
\* "cap" (500 written at the invalid-command cap, the 421 is next),
\* "body" (reading a DATA body or BDAT chunk), "release" (handleConn has
\* returned, the deferred release of the slot is next), "done" (the deferred
\* wg.Done is next), "ended".  ctxDone and ncClosed
\* are the session's context and transport; out is the reply codes that
\* reached the client, the replies to commands and bodies left out; exit is
\* how handleConn returned; released counts the slots the session gave back.
ConnIds == 1..NConn
NoSession ==
  [phase |-> "none", ctxDone |-> FALSE, ncClosed |-> FALSE, out |-> <<>>,
   exit |-> "", released |-> 0]

\* A server that accepts nothing: the value of the server variables in the
\* behaviours that follow one session only.
ServerIdle ==
  /\ maxConnections = 0
  /\ quit = FALSE
  /\ lnClosed = FALSE
  /\ acceptLoop = [pc |-> "accept", conn |-> 0, busy |-> 0]
  /\ connSem = 0
  /\ wg = 0
  /\ shut = [pc |-> "none", done |-> FALSE]
  /\ conns = [c \in ConnIds |-> NoSession]
  /\ crashed = FALSE

\* The session handleConn creates (session.go:78-82).
newSession ==
  [state |-> stateNew, clientHostname |-> "", esmtp |-> FALSE, tls |-> FALSE,
   authenticated |-> FALSE, invalidCmds |-> 0, reversePath |-> ZeroPath,
   forwardPaths |-> <<>>, bdatBuffer |-> <<>>]

\* After NewServer, accept, and the greeting banner (session.go:48-90).
Init ==
  /\ server \in Configs
  /\ sess = newSession
  /\ conn = [net |-> "tcp", r |-> <<>>]
  /\ alive = TRUE
  /\ pc = "cmd"
  /\ pend = NoPend
  /\ lastCmd = [verb |-> "<greeting>", args |-> "", nul |-> FALSE, via |-> "tcp",
                st |-> stateNew]
  /\ replies = <<reply(ReplyServiceReady, EnhancedCodeZero, "ESMTP ready")>>
  /\ onData = NoCall
  /\ nInvalid = 0
  /\ hist = [awaitHello |-> FALSE, dropped |-> 0]
  /\ ServerIdle
  /\ dot = DotIdle
  /\ wire = [pc |-> "idle"]
  /\ cli = [pc |-> "idle"]

\* The sequences of lines one read of the transport can buffer behind a line.
Rests == UNION { [1..n -> Pipelinable] : n \in 0..MaxPipelined }

\* What the bounds of the model let the client send next.
ClientMaySend(line) ==
  /\ (IsInvalidLine(line) /\ server.maxInvalidCmds = 0) => sess.invalidCmds < MaxInvalid
  /\ (~line.nul /\ parseCommand(line).verb = "BDAT")
       => LET parts == BdatFields(line.args) IN
            (Len(parts) >= 1 /\ ~ScanSize(parts[1]).err)
               => Len(sess.bdatBuffer) + ScanSize(parts[1]).val <= MaxBdat

\* The results the application handler can yield for a line whose handling
\* may call it before the next read: OnHelo, OnMail, OnRcpt, OnVrfy, OnData
\* (BDAT 0 LAST), Authenticate (AUTH PLAIN with an initial response).  For
\* the other lines no handler result is consulted.
ResultsFor(line) ==
  IF line.nul THEN {"nil"}
  ELSE LET c == parseCommand(line) IN
    IF c.verb = "VRFY" \/ (c.verb = "BDAT" /\ c.args = "0 LAST") THEN HandlerResults
    ELSE IF \/ (c.verb \in {"EHLO", "HELO"} /\ c.args # "")
            \/ (c.verb = "MAIL" /\ c.args \in {"FROM:<a@x>", "from:<>"})
            \/ (c.verb = "RCPT" /\ c.args = "TO:<b@y>")
            \/ (c.verb = "AUTH" /\ c.args = "PLAIN AGdvb2QAcHc=")
      THEN HandlerResults \ {"nil"}
    ELSE {"nil"}

\* The lines ReadLine can return: the head of the buffered reader, or, when
\* the buffer is empty and the transport is alive, any line the client sends.
NextLines ==
  IF conn.r # <<>> THEN {Head(conn.r).line}
  ELSE IF alive THEN Lines ELSE {}

\* ReadLine returns a line and the loop dispatches it (session.go:101-157).
\* The line is the next one of the buffered reader; when the buffer is empty
\* the reader reads the transport, which yields the line and what the client
\* sent in the same segment behind it.
Command ==
  /\ pc = "cmd"
  /\ \E line \in NextLines, rest \in Rests :
     \E res \in ResultsFor(line) :
       /\ (conn.r # <<>> \/ parseCommand(line).verb \notin PipelineHeads) => rest = <<>>
       /\ ClientMaySend(line)
       /\ \E ret \in {dispatch(sess, line, res)} :
           LET via == IF conn.r # <<>> THEN Head(conn.r).via ELSE conn.net
           IN
             /\ sess' = ret.sess
             /\ replies' = ret.out
             /\ pc' = ret.pc
             /\ pend' = ret.pend
             /\ onData' = ret.onData
             /\ conn' = [conn EXCEPT !.r =
                           IF conn.r # <<>> THEN Tail(conn.r)
                           ELSE [i \in 1..Len(rest) |-> [line |-> rest[i], via |-> conn.net]]]
             /\ lastCmd' = [verb |-> parseCommand(line).verb,
                            args |-> parseCommand(line).args, nul |-> line.nul,
                            via |-> via, st |-> sess.state]
             /\ nInvalid' = nInvalid + (IF IsInvalidLine(line) THEN 1 ELSE 0)
             /\ hist' = IF /\ ~line.nul
                           /\ parseCommand(line).verb \in {"EHLO", "HELO"}
                           /\ ret.out[1].code = ReplyOK
                          THEN [hist EXCEPT !.awaitHello = FALSE]
                        ELSE hist
  /\ UNCHANGED <<server, alive>>
  /\ UNCHANGED <<serverVars, dot, wire, cli>>

\* ReadLine fails: the client closed, the read deadline fired, or the client
\* sent a line longer than MaxCommandLineLen (conn.go:86-113); the loop
\* returns (session.go:102-105).  lastCmd.args keeps the cause.
ReadFail ==
  /\ pc = "cmd"
  /\ conn.r = <<>>
  /\ pc' = "done"
  /\ \E why \in {"", "line too long"} :
       /\ why = "line too long" => alive
       /\ lastCmd' = [verb |-> "<error>", args |-> why, nul |-> FALSE,
                      via |-> conn.net, st |-> sess.state]
  /\ replies' = <<>>
  /\ onData' = NoCall
  /\ UNCHANGED <<server, sess, conn, alive, pend, nInvalid, hist>>
  /\ UNCHANGED <<serverVars, dot, wire, cli>>

\* The bodies the dot reader hands to the DataHandler: one within
\* max_message_size and one a byte longer than it.
Bodies == { [i \in 1..n |-> "a"] : n \in {1, MaxSize + 1} }

\* The DATA body is read and the DataHandler has returned (session.go:373-397).
DataBody ==
  /\ pc = "data"
  /\ \E res \in HandlerResults, io \in IoResults, body \in Bodies :
       \E ret \in {dataBody(sess, res, body)} :
          /\ sess' = ret.sess
          /\ replies' = replies \o ret.out
          /\ pc' = ret.pc
          /\ pend' = ret.pend
          /\ onData' = ret.onData
          /\ alive' = (alive /\ io # "eof")
  /\ UNCHANGED <<server, conn, lastCmd, nInvalid, hist>>
  /\ UNCHANGED <<serverVars, dot, wire, cli>>

\* io.ReadFull of the BDAT chunk returns (session.go:422-455).
BdatRead ==
  /\ pc = "bdat"
  /\ \E io \in IoResults, chunk \in {Opaque(pend.size)}, res \in HandlerResults :
       IF io = "ok"
         THEN \E ret \in {bdatChunk(sess, pend.size, pend.last, chunk, res)} :
                 /\ sess' = ret.sess
                 /\ replies' = replies \o ret.out
                 /\ pc' = ret.pc
                 /\ onData' = ret.onData
                 /\ alive' = alive
         ELSE /\ pc' = "cmd"
              /\ alive' = (alive /\ io # "eof")
              /\ UNCHANGED <<sess, replies, onData>>
  /\ pend' = NoPend
  /\ UNCHANGED <<server, conn, lastCmd, nInvalid, hist>>
  /\ UNCHANGED <<serverVars, dot, wire, cli>>

AuthPcs == {"authPlain", "authLoginUser", "authLoginPass", "authCram"}

\* The ReadLine of an AUTH exchange returns (session.go:544, 585, 601, 633).
AuthLine ==
  /\ pc \in AuthPcs
  /\ \E io \in IoResults, line \in AuthResponses, res \in HandlerResults \ {"nil"} :
       IF io = "ok"
         THEN \E ret \in {CASE pc = "authPlain"     -> authPLAINline(sess, line, res)
                              [] pc = "authLoginUser" -> authLOGINuser(sess, line)
                              [] pc = "authLoginPass" -> authLOGINpass(sess, line, res)
                              [] pc = "authCram"      -> authCRAMline(sess, line, res)} :
                 /\ sess' = ret.sess
                 /\ replies' = replies \o ret.out
                 /\ pc' = ret.pc
                 /\ alive' = alive
         ELSE /\ pc' = "cmd"
              /\ alive' = (alive /\ io # "eof")
              /\ UNCHANGED <<sess, replies>>
  /\ UNCHANGED <<server, conn, pend, lastCmd, onData, nInvalid, hist>>
  /\ UNCHANGED <<serverVars, dot, wire, cli>>

\* tlsConn.Handshake returns (session.go:711-728).
Handshake ==
  /\ pc = "handshake"
  /\ \E ok \in BOOLEAN, dead \in BOOLEAN :
       IF ok
         THEN /\ conn' = ReplaceConn(conn, "tls")
              /\ sess' = upgradeSession(sess)
              /\ alive' = alive
              /\ hist' = [awaitHello |-> TRUE,
                          dropped |-> hist.dropped + Len(conn.r) - Len(conn'.r)]
         ELSE /\ alive' = (alive /\ ~dead)
              /\ UNCHANGED <<sess, conn, hist>>
  /\ pc' = "cmd"
  /\ UNCHANGED <<server, pend, lastCmd, replies, onData, nInvalid>>
  /\ UNCHANGED <<serverVars, dot, wire, cli>>

Next == Command \/ ReadFail \/ DataBody \/ BdatRead \/ AuthLine \/ Handshake

Spec == Init /\ [][Next]_vars

(***************************************************************************)
(* Properties.  Each is stated over the observation variables: lastCmd is  *)
(* the latest command line read by the loop, with the state it was read    *)
(* in, and replies are the replies written since.                          *)
(***************************************************************************)
Codes(rs) == [i \in 1..Len(rs) |-> rs[i].code]
Range(f) == {f[i] : i \in DOMAIN f}
TxnEmpty(s) == s.reversePath = ZeroPath /\ s.forwardPaths = <<>> /\ s.bdatBuffer = <<>>
\* lastCmd is a well-formed (NUL-free) command line with verb v
Issued(v) == lastCmd.verb = v /\ ~lastCmd.nul
FirstCode(c) == Len(replies) >= 1 /\ replies[1].code = c

\* The allowed verbs of each state, as the state table gives them.
AllowedVerbs(st) ==
  CASE st = stateNew     -> {"EHLO", "HELO", "NOOP", "RSET", "QUIT"}
    [] st = stateGreeted -> {"EHLO", "HELO", "MAIL", "AUTH", "STARTTLS", "VRFY",
                             "NOOP", "RSET", "QUIT"}
    [] st = stateMail    -> {"RCPT", "RSET", "NOOP", "QUIT"}
    [] st = stateRcpt    -> {"RCPT", "DATA", "BDAT", "RSET", "NOOP", "QUIT"}
    [] OTHER             -> {}

\* C1 as stated: every verb among EHLO, HELO, MAIL, RCPT, DATA, BDAT, AUTH,
\* STARTTLS, VRFY issued in a state whose allowed set does not hold it is
\* answered 503.  (VRFY as the first command of a session, in New, is
\* answered by handleVRFY without a look at the state.)
C1_OutOfStateIs503 ==
  \A v \in {"EHLO", "HELO", "MAIL", "RCPT", "DATA", "BDAT", "AUTH", "STARTTLS", "VRFY"} :
    (Issued(v) /\ v \notin AllowedVerbs(lastCmd.st)) => FirstCode(ReplyBadSequence)

\* C2: in submission mode the session is in Mail, Rcpt or Data only if it is
\* authenticated; MAIL in Greeted without authentication is answered 530 and
\* the state stays Greeted; the DataHandler is only called for an
\* authenticated session; MAIL in Greeted of an authenticated session is
\* not answered 530.
C2_SubmissionRequiresAuth ==
  server.submissionMode =>
    /\ sess.state \in {stateMail, stateRcpt, stateData} => sess.authenticated
    /\ (Issued("MAIL") /\ lastCmd.st = stateGreeted /\ ~sess.authenticated)
         => Codes(replies) = <<ReplyAuthRequired>> /\ sess.state = stateGreeted
    /\ onData.called => sess.authenticated
    /\ (Issued("MAIL") /\ lastCmd.st = stateGreeted /\ sess.authenticated)
         => ~FirstCode(ReplyAuthRequired)
    /\ (Issued("MAIL") /\ lastCmd.st = stateGreeted /\ sess.authenticated
          /\ lastCmd.args = "FROM:<a@x>" /\ sess.state # stateMail)
         => FirstCode(ReplyMailboxNotFound) \/ FirstCode(ReplyLocalError)

\* C2 witness: a syntactically valid MAIL of an unauthenticated client in
\* Greeted, submission mode on an AUTH-capable server, answered 530.
C2_Witness ==
  /\ server.submissionMode /\ server.authHandler
  /\ Issued("MAIL") /\ lastCmd.args = "FROM:<a@x>" /\ lastCmd.st = stateGreeted
  /\ Codes(replies) = <<ReplyAuthRequired>>
  /\ sess.state = stateGreeted

\* C3 as stated: STARTTLS is answered 220 (and the handshake starts) only
\* when the command was issued in Greeted on a connection that is not TLS.
C3_StartTLSOnlyInGreeted ==
  (Issued("STARTTLS") /\ FirstCode(ReplyServiceReady))
    => lastCmd.st = stateGreeted /\ lastCmd.via = "tcp"

\* C4 as stated: after a successful STARTTLS handshake the state is New, the
\* hostname and ESMTP flag are cleared, the transaction is empty, the
\* session is not authenticated, and tls is set.
C4_StartTLSResetsSession ==
  (Issued("STARTTLS") /\ FirstCode(ReplyServiceReady) /\ pc = "cmd" /\ conn.net = "tls")
    => /\ sess.state = stateNew
       /\ sess.clientHostname = "" /\ ~sess.esmtp
       /\ TxnEmpty(sess)
       /\ ~sess.authenticated
       /\ sess.tls

\* C5: no line received in plaintext is waiting in the reader of a TLS
\* connection, and on a TLS session the latest command was either received
\* through TLS or is the STARTTLS that started the upgrade.
C5_NoPlaintextCommandAfterUpgrade ==
  /\ \A i \in 1..Len(conn.r) : conn.r[i].via = conn.net
  /\ sess.tls <=> conn.net = "tls"
  /\ sess.tls =>
       \/ lastCmd.via = "tls"
       \/ Issued("STARTTLS") /\ lastCmd.via = "tcp" /\ FirstCode(ReplyServiceReady)

\* C5 witness: a command was executed over TLS on a connection whose
\* upgrade discarded a line pipelined behind STARTTLS.
C5_Witness ==
  /\ hist.dropped > 0
  /\ sess.tls
  /\ lastCmd.via = "tls" /\ lastCmd.verb \in KnownVerbs

\* C6: after a successful STARTTLS and until an EHLO/HELO is accepted, MAIL,
\* RCPT and DATA are answered 503 and change nothing; an accepted EHLO over
\* TLS does not list STARTTLS.
C6_RejectUntilHelloAfterTLS ==
  /\ \A v \in {"MAIL", "RCPT", "DATA"} :
       (hist.awaitHello /\ Issued(v) /\ lastCmd.via = "tls")
         => /\ Codes(replies) = <<ReplyBadSequence>>
            /\ sess.state = stateNew /\ TxnEmpty(sess)
            /\ pc = "cmd"
  /\ (Issued("EHLO") /\ lastCmd.via = "tls" /\ FirstCode(ReplyOK))
       => /\ "STARTTLS" \notin Range(replies[1].lines)
          /\ ~hist.awaitHello

\* C6 witness: MAIL sent over TLS before the new EHLO, answered 503.
C6_Witness ==
  /\ hist.awaitHello /\ Issued("MAIL") /\ lastCmd.via = "tls"
  /\ lastCmd.args = "FROM:<a@x>"
  /\ Codes(replies) = <<ReplyBadSequence>>

\* A DATA body was read and answered; the BDAT LAST chunk was read (or was
\* empty) and answered.
DataProcessed == Issued("DATA") /\ Len(replies) = 2 /\ pc = "cmd"
BdatLastProcessed ==
  /\ Issued("BDAT") /\ lastCmd.st = stateRcpt /\ Len(replies) = 1 /\ pc = "cmd"
  /\ Len(BdatFields(lastCmd.args)) >= 2
  /\ IsLAST(BdatFields(lastCmd.args)[2])
  /\ ~ScanSize(BdatFields(lastCmd.args)[1]).err
  /\ ScanSize(BdatFields(lastCmd.args)[1]).val >= 0

\* C7: once a DATA body or a BDAT LAST chunk is processed, whatever the
\* DataHandler returned, the session is in Greeted with an empty
\* transaction.
C7_ResetAfterMessage ==
  (DataProcessed \/ BdatLastProcessed)
    => sess.state = stateGreeted /\ TxnEmpty(sess)

\* C7 witness: the DataHandler was called with a DATA body and failed.
C7_Witness ==
  /\ DataProcessed
  /\ onData.called /\ onData.to # <<>>
  /\ replies[2].code = ReplyMailboxNotFound

\* C8 as stated: every EHLO or HELO, in any state, empties the transaction,
\* puts the session in Greeted and leaves tls and authenticated unchanged.
C8_HelloAlwaysResets ==
  [][(pc = "cmd" /\ lastCmd'.verb \in {"EHLO", "HELO"} /\ ~lastCmd'.nul)
       => /\ TxnEmpty(sess') /\ sess'.state = stateGreeted
          /\ sess'.tls = sess.tls /\ sess'.authenticated = sess.authenticated]_vars

\* C8 amended: an accepted (250) EHLO or HELO, in any state, empties the
\* transaction, puts the session in Greeted and leaves tls and
\* authenticated unchanged.
C8_AcceptedHelloResets ==
  [][(/\ pc = "cmd" /\ lastCmd'.verb \in {"EHLO", "HELO"} /\ ~lastCmd'.nul
      /\ replies'[1].code = ReplyOK)
       => /\ TxnEmpty(sess') /\ sess'.state = stateGreeted
          /\ sess'.tls = sess.tls /\ sess'.authenticated = sess.authenticated]_vars

\* C8 witness: EHLO accepted in Rcpt by an authenticated session.
C8_Witness ==
  /\ Issued("EHLO") /\ lastCmd.st = stateRcpt /\ FirstCode(ReplyOK)
  /\ sess.state = stateGreeted /\ TxnEmpty(sess)
  /\ sess.authenticated

\* C9: RSET empties the transaction, leaves New as New and every other
\* state as Greeted, is answered 250, and leaves tls, authenticated, the
\* client hostname and the invalid-command counter unchanged.
C9_RsetFrame ==
  [][(pc = "cmd" /\ lastCmd'.verb = "RSET" /\ ~lastCmd'.nul)
       => /\ TxnEmpty(sess')
          /\ sess'.state = (IF sess.state = stateNew THEN stateNew ELSE stateGreeted)
          /\ Codes(replies') = <<ReplyOK>>
          /\ sess'.tls = sess.tls /\ sess'.authenticated = sess.authenticated
          /\ sess'.clientHostname = sess.clientHostname
          /\ sess'.invalidCmds = sess.invalidCmds]_vars

\* C9 witness: RSET issued in Rcpt after an invalid command was counted.
C9_Witness ==
  /\ Issued("RSET") /\ lastCmd.st = stateRcpt
  /\ sess.state = stateGreeted /\ TxnEmpty(sess)
  /\ sess.invalidCmds > 0

\* C10: with maxInvalidCmds = K > 0 the K-th unrecognized or NUL line of the
\* session is answered 500 then 421 and the loop ends; each earlier one is
\* answered 500 alone and the loop goes on; no more than K are ever read.
C10_InvalidCommandCap ==
  (server.maxInvalidCmds > 0) =>
    /\ nInvalid <= server.maxInvalidCmds
    /\ (lastCmd.nul \/ lastCmd.verb \notin KnownVerbs \cup {"<greeting>", "<error>"}) =>
         IF nInvalid = server.maxInvalidCmds
           THEN Codes(replies) = <<ReplySyntaxError, ReplyServiceNotAvailable>> /\ pc = "done"
           ELSE Codes(replies) = <<ReplySyntaxError>> /\ pc = "cmd"
    /\ (pc = "done" /\ nInvalid = server.maxInvalidCmds)
         => lastCmd.nul \/ lastCmd.verb \notin KnownVerbs

\* C10 witness: the K-th invalid line was a NUL line read in Rcpt, so valid
\* commands came between the invalid ones.
C10_Witness ==
  /\ server.maxInvalidCmds > 1
  /\ nInvalid = server.maxInvalidCmds
  /\ lastCmd.nul /\ lastCmd.st = stateRcpt
  /\ Codes(replies) = <<ReplySyntaxError, ReplyServiceNotAvailable>>
  /\ pc = "done"

\* C11 as stated: every command answered 503 5.5.1 (out of sequence) adds one
\* to the session's invalid-command counter.
C11_BadSequenceCounted ==
  [][(/\ pc = "cmd"
      /\ lastCmd'.verb \in KnownVerbs /\ ~lastCmd'.nul
      /\ Len(replies') >= 1
      /\ replies'[1].code = ReplyBadSequence
      /\ replies'[1].enh = EnhancedCodeInvalidCommand)
       => sess'.invalidCmds = sess.invalidCmds + 1]_vars

(***************************************************************************)
(* The server: Serve, Shutdown and the life of each session (server.go,    *)
(* session.go:48-105).  A session is followed from outside: its goroutine, *)
(* the watcher goroutine that handleConn starts, and what reaches the      *)
(* client.                                                                 *)
(***************************************************************************)
Running == {"start", "top", "read", "cap", "body"}
NumRunning == Cardinality({c \in ConnIds : conns[c].phase \in Running})

\* The sessions that hold a slot of the semaphore: those whose goroutine has
\* been started and has not yet run its deferred release.
Holding == Running \cup {"release"}
NumHolding == Cardinality({c \in ConnIds : conns[c].phase \in Holding})

\* A write to the client: it arrives unless the transport is closed.
Write(c, codes) == IF conns[c].ncClosed THEN conns[c].out ELSE conns[c].out \o codes

\* handleConn returns: its last reply is written, and conn.Close and cancel
\* run (session.go:53, 73, 84), which touch the session's own transport and
\* context only.  The deferred calls of the goroutine that wraps handleConn
\* (server.go:217-221) are steps of their own: Serve and Shutdown run in
\* between.  Without a semaphore there is no deferred release.
EndSession(c, why, codes) ==
  /\ conns' = [conns EXCEPT ![c] =
       [@ EXCEPT !.phase = IF maxConnections > 0 THEN "release" ELSE "done",
                 !.exit = why, !.out = Write(c, codes),
                 !.ctxDone = TRUE, !.ncClosed = TRUE]]
  /\ UNCHANGED <<connSem, wg>>

DeferRelease_LeakOnRefusal ==
  /\ ~crashed
  /\ \E c \in ConnIds :
       /\ conns[c].phase = "release"
       /\ IF conns[c].exit = "refused"
            THEN /\ conns' = [conns EXCEPT ![c].phase = "done"]
                 /\ UNCHANGED connSem
            ELSE /\ conns' = [conns EXCEPT ![c] =
                      [@ EXCEPT !.phase = "done", !.released = @ + 1]]
                 /\ connSem' = connSem - 1
  /\ UNCHANGED <<maxConnections, quit, lnClosed, acceptLoop, wg, shut, crashed>>
  /\ UNCHANGED <<sessionVars, dot, wire, cli>>

\* The deferred receive from the semaphore gives the slot back
\* (server.go:219-221).  A panic that unwinds through the goroutine runs
\* it too.
DeferRelease ==
  /\ ~crashed
  /\ \E c \in ConnIds :
       /\ conns[c].phase = "release"
       /\ conns' = [conns EXCEPT ![c] =
            [@ EXCEPT !.phase = "done", !.released = @ + 1]]
       /\ connSem' = connSem - 1
  /\ UNCHANGED <<maxConnections, quit, lnClosed, acceptLoop, wg, shut, crashed>>
  /\ UNCHANGED <<sessionVars, dot, wire, cli>>

\* The deferred wg.Done (server.go:218) ends the goroutine; when it is a
\* panic that unwound it, the process dies, nothing recovering it.
DeferDone ==
  /\ ~crashed
  /\ \E c \in ConnIds :
       /\ conns[c].phase = "done"
       /\ conns' = [conns EXCEPT ![c].phase = "ended"]
       /\ wg' = wg - 1
       /\ crashed' = (crashed \/ conns[c].exit = "panic")
  /\ UNCHANGED <<maxConnections, quit, lnClosed, acceptLoop, connSem, shut>>
  /\ UNCHANGED <<sessionVars, dot, wire, cli>>

\* NewServer with WithMaxConnections, and Serve up to its first Accept
\* (server.go:51-67, 180-190).
InitServer ==
  /\ server = Config(FALSE, FALSE, FALSE, MaxInvalid)
  /\ sess = newSession
  /\ conn = [net |-> "tcp", r |-> <<>>]
  /\ alive = TRUE
  /\ pc = "cmd"
  /\ pend = NoPend
  /\ lastCmd = [verb |-> "<greeting>", args |-> "", nul |-> FALSE, via |-> "tcp",
                st |-> stateNew]
  /\ replies = <<reply(ReplyServiceReady, EnhancedCodeZero, "ESMTP ready")>>
  /\ onData = NoCall
  /\ nInvalid = 0
  /\ hist = [awaitHello |-> FALSE, dropped |-> 0]
  /\ maxConnections \in {0, MaxConns}
  /\ quit = FALSE
  /\ lnClosed = FALSE
  /\ acceptLoop = [pc |-> "accept", conn |-> 0, busy |-> 0]
  /\ connSem = 0
  /\ wg = 0
  /\ shut = [pc |-> "none", done |-> FALSE]
  /\ conns = [c \in ConnIds |-> NoSession]
  /\ crashed = FALSE
  /\ dot = DotIdle
  /\ wire = [pc |-> "idle"]
  /\ cli = [pc |-> "idle"]

\* The clients: the connections that have dialed the server, and how many
\* may dial it.
Dialed == Cardinality({c \in ConnIds : conns[c].phase # "none"})
Dials == IF maxConnections > 0 /\ ~quit THEN NConn ELSE NDial

\* ln.Accept returns (server.go:191-200): a connection a client dialed, or,
\* once the listener is closed, an error, on which Serve returns because
\* quit is closed.
Accept ==
  /\ ~crashed
  /\ acceptLoop.pc = "accept"
  /\ IF lnClosed
       THEN /\ quit
            /\ acceptLoop' = [pc |-> "returned", conn |-> 0, busy |-> 0]
            /\ UNCHANGED conns
       ELSE \E c \in ConnIds :
              /\ c <= Dials
              /\ conns[c].phase = "none"
              /\ \A d \in ConnIds : d < c => conns[d].phase # "none"
              /\ conns' = [conns EXCEPT ![c].phase = "accepted"]
              /\ acceptLoop' = [pc |-> "admit", conn |-> c, busy |-> NumRunning]
  /\ UNCHANGED <<maxConnections, quit, lnClosed, connSem, wg, shut, crashed>>
  /\ UNCHANGED <<sessionVars, dot, wire, cli>>

Admit_OffByOne ==
  /\ ~crashed
  /\ acceptLoop.pc = "admit"
  /\ LET c == acceptLoop.conn IN
       IF maxConnections > 0 /\ connSem > maxConnections
         THEN /\ conns' = [conns EXCEPT ![c] =
                   [@ EXCEPT !.phase = "rejected", !.ncClosed = TRUE,
                             !.out = <<ReplyServiceNotAvailable>>]]
              /\ UNCHANGED <<connSem, wg>>
         ELSE /\ connSem' = IF maxConnections > 0 THEN connSem + 1 ELSE connSem
              /\ wg' = wg + 1
              /\ conns' = [conns EXCEPT ![c].phase = "start"]
  /\ acceptLoop' = [pc |-> "accept", conn |-> 0, busy |-> 0]
  /\ UNCHANGED <<maxConnections, quit, lnClosed, shut, crashed>>
  /\ UNCHANGED <<sessionVars, dot, wire, cli>>

\* The rest of the iteration of Serve (server.go:202-223): take a slot of the
\* semaphore or refuse with 421, then wg.Add(1) and start the goroutine.
Admit ==
  /\ ~crashed
  /\ acceptLoop.pc = "admit"
  /\ LET c == acceptLoop.conn IN
       IF maxConnections > 0 /\ connSem >= maxConnections
         THEN /\ conns' = [conns EXCEPT ![c] =
                   [@ EXCEPT !.phase = "rejected", !.ncClosed = TRUE,
                             !.out = <<ReplyServiceNotAvailable>>]]
              /\ UNCHANGED <<connSem, wg>>
         ELSE /\ connSem' = IF maxConnections > 0 THEN connSem + 1 ELSE connSem
              /\ wg' = wg + 1
              /\ conns' = [conns EXCEPT ![c].phase = "start"]
  /\ acceptLoop' = [pc |-> "accept", conn |-> 0, busy |-> 0]
  /\ UNCHANGED <<maxConnections, quit, lnClosed, shut, crashed>>
  /\ UNCHANGED <<sessionVars, dot, wire, cli>>

\* What OnConnect returns: nil, an *smtp.SMTPError carrying its own code, or
\* another error (session.go:66-68).
SMTPErrorCodes == {ReplyServiceNotAvailable, ReplyMailboxNotFound, ReplyTransactionFailed}
OnConnectResults ==
  {[kind |-> "nil", code |-> 0], [kind |-> "error", code |-> 0]}
    \cup {[kind |-> "SMTPError", code |-> k] : k \in SMTPErrorCodes}

\* The reply that refuses the connection (session.go:68-72): the code of the
\* handler's SMTPError, or 421 for any other error.
RefusalCode(err) ==
  IF err.kind = "SMTPError" THEN err.code ELSE ReplyServiceNotAvailable

\* handleConn up to the command loop (session.go:48-90): the connection
\* handler may refuse, and the refusal is written with the handler's code;
\* otherwise the greeting is written, and a failed write ends the session.
ConnStart ==
  /\ ~crashed
  /\ \E c \in ConnIds, err \in OnConnectResults :
       /\ conns[c].phase = "start"
       /\ IF err.kind # "nil"
            THEN EndSession(c, "refused", <<RefusalCode(err)>>)
          ELSE IF conns[c].ncClosed
            THEN EndSession(c, "greeting", <<>>)
          ELSE /\ conns' = [conns EXCEPT ![c] =
                    [@ EXCEPT !.phase = "top", !.out = @ \o <<ReplyServiceReady>>]]
               /\ UNCHANGED <<connSem, wg>>
  /\ UNCHANGED <<maxConnections, quit, lnClosed, acceptLoop, shut, crashed>>
  /\ UNCHANGED <<sessionVars, dot, wire, cli>>

\* The select at the top of the command loop (session.go:93-99).
LoopTop ==
  /\ ~crashed
  /\ \E c \in ConnIds :
       /\ conns[c].phase = "top"
       /\ IF conns[c].ctxDone
            THEN EndSession(c, "shutdown", <<ReplyServiceNotAvailable>>)
            ELSE /\ conns' = [conns EXCEPT ![c].phase = "read"]
                 /\ UNCHANGED <<connSem, wg>>
  /\ UNCHANGED <<maxConnections, quit, lnClosed, acceptLoop, shut, crashed>>
  /\ UNCHANGED <<sessionVars, dot, wire, cli>>

\* What ReadLine and the dispatch of the line come to, seen from outside.
ReadOutcomes == {"command", "data", "quit", "cap", "error", "panic"}

\* ReadLine returns and the line is handled (session.go:101-157).  The
\* reader is buffered: after the watcher has closed the transport it still
\* returns a line it holds, which is dispatched like any other, the replies
\* being lost; a read that reaches the transport fails and handleConn
\* returns.  The invalid command that reaches the cap is answered 500
\* here, and 421 by a second write (CapReply).
ReadCommand ==
  /\ ~crashed
  /\ \E c \in ConnIds, o \in ReadOutcomes :
       /\ conns[c].phase = "read"
       /\ CASE o = "command" ->
                 /\ conns' = [conns EXCEPT ![c].phase = "top"]
                 /\ UNCHANGED <<connSem, wg>>
            [] o = "data" ->
                 /\ conns' = [conns EXCEPT ![c].phase = "body"]
                 /\ UNCHANGED <<connSem, wg>>
            [] o = "quit" ->
                 EndSession(c, "quit", <<ReplyServiceClosing>>)
            [] o = "cap" ->
                 /\ conns' = [conns EXCEPT ![c] =
                      [@ EXCEPT !.phase = "cap", !.out = Write(c, <<ReplySyntaxError>>)]]
                 /\ UNCHANGED <<connSem, wg>>
            [] o = "error" ->
                 EndSession(c, IF conns[c].ncClosed THEN "closed" ELSE "error", <<>>)
            [] o = "panic" ->
                 EndSession(c, "panic", <<>>)
  /\ UNCHANGED <<maxConnections, quit, lnClosed, acceptLoop, shut, crashed>>
  /\ UNCHANGED <<sessionVars, dot, wire, cli>>

\* The second write at the invalid-command cap (session.go:112, 154): 421,
\* and handleConn returns.  The watcher may have closed the transport since
\* the 500 was written.
CapReply ==
  /\ ~crashed
  /\ \E c \in ConnIds :
       /\ conns[c].phase = "cap"
       /\ EndSession(c, "cap", <<ReplyServiceNotAvailable>>)
  /\ UNCHANGED <<maxConnections, quit, lnClosed, acceptLoop, shut, crashed>>
  /\ UNCHANGED <<sessionVars, dot, wire, cli>>

\* The read of a DATA body returns and the DataHandler's reply is written
\* (session.go:373-397).  On a closed transport the read is cut short and
\* the reply is lost.
ReadBody ==
  /\ ~crashed
  /\ \E c \in ConnIds :
       /\ conns[c].phase = "body"
       /\ conns' = [conns EXCEPT ![c].phase = "top"]
  /\ UNCHANGED <<maxConnections, quit, lnClosed, acceptLoop, connSem, wg, shut, crashed>>
  /\ UNCHANGED <<sessionVars, dot, wire, cli>>

\* The watcher goroutine of handleConn (session.go:56-63) sees quit closed
\* and cancels the session's context.
WatchCancel ==
  /\ ~crashed
  /\ quit
  /\ \E c \in ConnIds :
       /\ conns[c].phase \in Running
       /\ ~conns[c].ctxDone
       /\ conns' = [conns EXCEPT ![c].ctxDone = TRUE]
  /\ UNCHANGED <<maxConnections, quit, lnClosed, acceptLoop, connSem, wg, shut, crashed>>
  /\ UNCHANGED <<sessionVars, dot, wire, cli>>

\* The watcher goes on to close the session's transport (session.go:60).
WatchClose ==
  /\ ~crashed
  /\ quit
  /\ \E c \in ConnIds :
       /\ conns[c].phase \in Running
       /\ conns[c].ctxDone
       /\ ~conns[c].ncClosed
       /\ conns' = [conns EXCEPT ![c].ncClosed = TRUE]
  /\ UNCHANGED <<maxConnections, quit, lnClosed, acceptLoop, connSem, wg, shut, crashed>>
  /\ UNCHANGED <<sessionVars, dot, wire, cli>>

\* Shutdown closes quit (server.go:241).  It is called on a server that no
\* more than NDial connections have dialed.
ShutdownQuit ==
  /\ ~crashed
  /\ shut.pc = "none"
  /\ Dialed <= NDial
  /\ quit' = TRUE
  /\ shut' = [shut EXCEPT !.pc = "listener"]
  /\ UNCHANGED <<maxConnections, lnClosed, acceptLoop, connSem, wg, conns, crashed>>
  /\ UNCHANGED <<sessionVars, dot, wire, cli>>

\* Shutdown closes the listener and starts the goroutine that waits for the
\* WaitGroup (server.go:243-255).
ShutdownListener ==
  /\ ~crashed
  /\ shut.pc = "listener"
  /\ lnClosed' = TRUE
  /\ shut' = [shut EXCEPT !.pc = "select"]
  /\ UNCHANGED <<maxConnections, quit, acceptLoop, connSem, wg, conns, crashed>>
  /\ UNCHANGED <<sessionVars, dot, wire, cli>>

\* wg.Wait returns when the counter is zero, and done is closed
\* (server.go:252-255).
WaitDone ==
  /\ ~crashed
  /\ shut.pc = "select"
  /\ ~shut.done
  /\ wg = 0
  /\ shut' = [shut EXCEPT !.done = TRUE]
  /\ UNCHANGED <<maxConnections, quit, lnClosed, acceptLoop, connSem, wg, conns, crashed>>
  /\ UNCHANGED <<sessionVars, dot, wire, cli>>

\* The select of Shutdown (server.go:257-262): nil when done is closed, the
\* context's error when the deadline has passed.
ShutdownReturn ==
  /\ ~crashed
  /\ shut.pc = "select"
  /\ \E deadline \in BOOLEAN :
       IF deadline THEN shut' = [shut EXCEPT !.pc = "deadline"]
       ELSE shut.done /\ shut' = [shut EXCEPT !.pc = "nil"]
  /\ UNCHANGED <<maxConnections, quit, lnClosed, acceptLoop, connSem, wg, conns, crashed>>
  /\ UNCHANGED <<sessionVars, dot, wire, cli>>

NextServer ==
  \/ Accept \/ Admit \/ ConnStart \/ LoopTop \/ ReadCommand \/ CapReply \/ ReadBody
  \/ DeferRelease \/ DeferDone
  \/ WatchCancel \/ WatchClose
  \/ ShutdownQuit \/ ShutdownListener \/ WaitDone \/ ShutdownReturn

SpecServer == InitServer /\ [][NextServer]_vars

\* What C12 says of a connection refused at capacity: the single reply 421,
\* the transport closed, no greeting and no session.
RefusedAtCapacity(k) ==
  /\ k.phase = "rejected"
  /\ k.out = <<ReplyServiceNotAvailable>>
  /\ k.ncClosed
  /\ k.exit = "" /\ k.released = 0
AdmitStep == maxConnections > 0 /\ acceptLoop.pc = "admit" /\ acceptLoop'.pc = "accept"

\* C12 as stated, a session running while handleConn runs and ended once
\* handleConn has returned and its transport is closed: no more than N
\* sessions run at a time; a connection admitted while N run is refused
\* with the single reply 421; and a connection that Accept returned while
\* fewer than N sessions were running (none can start before its admission)
\* is served.
C12_ServedOnceASessionEnded ==
  /\ [](maxConnections > 0 =>
          /\ NumRunning <= maxConnections
          /\ \A c \in ConnIds : conns[c].phase = "rejected" => RefusedAtCapacity(conns[c]))
  /\ [][(AdmitStep /\ NumRunning >= maxConnections)
          => RefusedAtCapacity(conns'[acceptLoop.conn])]_vars
  /\ [][(AdmitStep /\ acceptLoop.busy < maxConnections)
          => conns'[acceptLoop.conn].phase = "start"]_vars

\* C12 amended: with maxConnections = N > 0 no more than N sessions run at
\* a time; a connection accepted while N sessions run is refused with the
\* single reply 421, closed, with no greeting and no session; a connection
\* accepted when fewer than N sessions hold a slot is served, a session
\* holding its slot from its admission until the release its goroutine
\* defers, which comes after handleConn has returned; and a connection
\* accepted after a session ended and before that release is refused like
\* one accepted at capacity.
C12_ConnectionCap ==
  /\ [](maxConnections > 0 =>
          /\ NumRunning <= maxConnections
          /\ NumHolding <= maxConnections
          /\ \A c \in ConnIds : conns[c].phase = "rejected" => RefusedAtCapacity(conns[c]))
  /\ [][AdmitStep
          => LET c == acceptLoop.conn IN
               IF NumHolding >= maxConnections
                 THEN RefusedAtCapacity(conns'[c])
                 ELSE conns'[c].phase = "start"]_vars

\* C12 witness: a first session ended and gave its slot back, the next
\* connection was served in its place, and that session has ended in turn
\* (by QUIT, its 221 sent) without having released its slot yet, when a
\* third connection is accepted: no session is running and the admission
\* that comes next refuses it.
C12_Witness ==
  /\ maxConnections > 0
  /\ acceptLoop.pc = "admit"
  /\ acceptLoop.busy < maxConnections
  /\ \E c, d \in ConnIds :
       /\ c < d /\ d < acceptLoop.conn
       /\ conns[c].phase = "ended" /\ conns[c].released = 1
       /\ conns[d].phase = "release" /\ conns[d].exit = "quit"
       /\ conns[d].out = <<ReplyServiceReady, ReplyServiceClosing>>

\* C13: the slots taken of the semaphore are as many as the running sessions
\* (a session runs until its goroutine's deferred release), and a session
\* holds its slot until then and gives it back once, whatever the exit path:
\* a session that has ended has released exactly one slot.
C13_SlotsMatchSessions ==
  /\ connSem = (IF maxConnections > 0 THEN NumHolding ELSE 0)
  /\ \A c \in ConnIds :
       conns[c].released =
         (IF maxConnections > 0 /\ conns[c].phase \in {"done", "ended"} THEN 1 ELSE 0)

\* C13 witness: with the cap enabled, one session was refused by the
\* connection handler with its own code and another ended by shutdown, and
\* no slot is taken.
C13_Witness ==
  /\ maxConnections > 0
  /\ connSem = 0
  /\ \E c, d \in ConnIds :
       /\ conns[c].exit = "refused" /\ conns[c].released = 1
       /\ conns[c].out = <<ReplyTransactionFailed>>
       /\ conns[d].exit = "shutdown" /\ conns[d].released = 1

\* C14 as stated: when Shutdown has returned success no session is running
\* (every accepted connection's session has finished and none starts).
C14_ShutdownSuccessMeansDrained ==
  shut.pc = "nil" => NumRunning = 0

\* C15 as stated: a session ended by the shutdown, while waiting for a
\* command or at the top of the loop, got 421 to its client before the
\* connection was closed.
C15_ShutdownSends421 ==
  \A c \in ConnIds :
    conns[c].exit \in {"closed", "shutdown"}
      => /\ conns[c].out # <<>>
         /\ conns[c].out[Len(conns[c].out)] = ReplyServiceNotAvailable

\* C16 as stated: the shutdown does not touch a session that is reading a
\* body: its transport stays open until the body is read.
C16_BodyNotInterrupted ==
  \A c \in ConnIds : conns[c].phase = "body" => ~conns[c].ncClosed

(***************************************************************************)
(* The recipient cap.                                                      *)
(***************************************************************************)
TooManyRecipients ==
  reply(ReplyInsufficientStorage, EnhancedCodeTooManyRecipients, "Too many recipients")

\* C17: the recipient list of a session never holds more than max_recipients
\* entries, and a RCPT issued after MAIL while the list is at the cap is
\* answered 452 5.5.3 whatever its argument and whatever the RcptHandler
\* would return (it is not consulted), leaving the session, its recipient
\* list and its state as they were.
C17_RecipientCap ==
  /\ [](Len(sess.forwardPaths) <= server.maxRecipients)
  /\ [][(/\ pc = "cmd"
         /\ lastCmd'.verb = "RCPT" /\ ~lastCmd'.nul
         /\ sess.state >= stateMail
         /\ Len(sess.forwardPaths) >= server.maxRecipients)
          => /\ replies' = <<TooManyRecipients>>
             /\ sess' = sess
             /\ \A res \in HandlerResults :
                  handleRCPT(sess, lastCmd'.args, res) = Ret(sess, <<TooManyRecipients>>)]_vars

\* A RCPT with a valid address arrived while the list held max_recipients
\* accepted recipients and was answered 452.
C17_Witness ==
  /\ Issued("RCPT") /\ lastCmd.args = "TO:<b@y>" /\ lastCmd.st = stateRcpt
  /\ replies = <<TooManyRecipients>>
  /\ Len(sess.forwardPaths) = MaxRcpt /\ MaxRcpt > 0
  /\ sess.state = stateRcpt

\* C18 as stated: a body longer than max_message_size is never handed to the
\* DataHandler, so is never accepted with 250.
C18_MaxMessageSizeEnforced ==
  onData.called => Len(onData.body) <= server.maxMessageSize

(***************************************************************************)
(* The dot codec (internal/textproto/dot.go).  Bytes are one-character     *)
(* strings; "a" stands for every byte that is not '.', CR or LF.           *)
(***************************************************************************)
CR == "\r"
LF == "\n"
DotBytes == {".", CR, LF, "a"}

MaxBody == 4   \* longest body written through the dot writer
MaxBuf  == 3   \* largest buffer handed to dotReader.Read
MaxLate == 2   \* calls made on a dot writer after its Close

dotStateBeginLine == 0
dotStateLine      == 1
dotStateCR        == 2
dotStateDot       == 3
dotStateDotCR     == 4
dotStateEOF       == 5

\* newDotWriter (dot.go:155-157); w is what the bufio.Writer was given.
newDotWriter == [w |-> <<>>, beginLine |-> TRUE, closed |-> FALSE]

\* One turn of the loop of dotWriter.Write (dot.go:165-179).
dotWriteByte_NoStuffing(d, b) ==
  [d EXCEPT !.w = Append(d.w, b), !.beginLine = (b = LF)]
dotWriteByte(d, b) ==
  LET w1 == IF d.beginLine /\ b = "." THEN Append(d.w, ".") ELSE d.w
  IN [d EXCEPT !.w = Append(w1, b), !.beginLine = (b = LF)]

\* dotWriter.Write (dot.go:159-181)
RECURSIVE dotWrite(_, _)
dotWrite(d, p) ==
  IF d.closed \/ p = <<>> THEN d
  ELSE dotWrite(dotWriteByte(d, Head(p)), Tail(p))

\* dotWriter.Close (dot.go:185-201)
dotClose(d) ==
  IF d.closed THEN d
  ELSE LET w1 == IF ~d.beginLine THEN d.w \o <<CR, LF>> ELSE d.w
       IN [d EXCEPT !.closed = TRUE, !.w = w1 \o <<".", CR, LF>>]

\* newDotReader (dot.go:25-27); r is what the bufio.Reader has yet to yield.
newDotReader(r) == [r |-> r, state |-> dotStateBeginLine]

\* The loop of dotReader.Read (dot.go:35-143) with p the bytes stored so far
\* and len the length of the caller's buffer; yields the reader, the bytes
\* stored and the error returned: "nil", "EOF" for io.EOF at the terminator,
\* or "transport" for the error of the transport, met where d.r ends.
RECURSIVE readLoop(_, _, _)
readLoop(d, p, len) ==
  IF Len(p) >= len THEN [d |-> d, p |-> p, err |-> "nil"]
  ELSE IF d.r = <<>>
    THEN [d |-> [d EXCEPT !.state = dotStateEOF], p |-> p,
          err |-> IF Len(p) > 0 THEN "nil" ELSE "transport"]
  ELSE LET b    == Head(d.r)
           rest == Tail(d.r)
           go(st, emit, r) == readLoop([r |-> r, state |-> st], p \o emit, len)
           eof  == [d |-> [r |-> rest, state |-> dotStateEOF], p |-> p, err |-> "EOF"]
       IN CASE d.state = dotStateBeginLine ->
                 IF b = "." THEN go(dotStateDot, <<>>, rest)
                 ELSE IF b = CR THEN go(dotStateCR, <<b>>, rest)
                 ELSE IF b = LF THEN go(dotStateBeginLine, <<b>>, rest)
                 ELSE go(dotStateLine, <<b>>, rest)
            [] d.state = dotStateLine ->
                 go(IF b = CR THEN dotStateCR
                    ELSE IF b = LF THEN dotStateBeginLine ELSE dotStateLine,
                    <<b>>, rest)
            [] d.state = dotStateCR ->
                 go(IF b = LF THEN dotStateBeginLine
                    ELSE IF b = CR THEN dotStateCR ELSE dotStateLine,
                    <<b>>, rest)
            [] d.state = dotStateDot ->
                 IF b = CR THEN go(dotStateDotCR, <<>>, rest)
                 ELSE IF b = LF THEN eof
                 ELSE IF b = "." THEN go(dotStateLine, <<".">>, rest)
                 ELSE IF Len(p) + 1 < len THEN go(dotStateLine, <<".", b>>, rest)
                 ELSE go(dotStateLine, <<".">>, d.r)
            [] d.state = dotStateDotCR ->
                 IF b = LF THEN eof
                 ELSE IF Len(p) + 2 <= len
                   THEN IF Len(p) + 2 < len
                          THEN go(dotStateLine, <<".", CR, b>>, rest)
                          ELSE go(dotStateLine, <<".", CR>>, d.r)
                 ELSE [d |-> [r |-> d.r, state |-> dotStateLine],
                       p |-> Append(p, "."), err |-> "nil"]

\* dotReader.Read (dot.go:29-144)
dotRead(d, len) ==
  IF d.state = dotStateEOF THEN [d |-> d, p |-> <<>>, err |-> "EOF"]
  ELSE readLoop(d, <<>>, len)

\* The bodies written, and what follows the terminator on the stream.
DotBodies == UNION { [1..n -> DotBytes] : n \in 0..MaxBody }
Trailers  == { <<>>, <<".", LF>> }

\* A writer and a body to write; the session and the server stand idle.
InitDot ==
  /\ dot \in { [pc |-> "write", body |-> b, todo |-> b, dw |-> newDotWriter,
                trailer |-> t, dr |-> newDotReader(<<>>), out |-> <<>>,
                late |-> 0, call |-> [op |-> "", err |-> ""]] :
               b \in DotBodies, t \in Trailers }
  /\ server = Config(FALSE, FALSE, FALSE, MaxInvalid)
  /\ sess = newSession
  /\ conn = [net |-> "tcp", r |-> <<>>]
  /\ alive = TRUE
  /\ pc = "cmd"
  /\ pend = NoPend
  /\ lastCmd = [verb |-> "<greeting>", args |-> "", nul |-> FALSE, via |-> "tcp",
                st |-> stateNew]
  /\ replies = <<reply(ReplyServiceReady, EnhancedCodeZero, "ESMTP ready")>>
  /\ onData = NoCall
  /\ nInvalid = 0
  /\ hist = [awaitHello |-> FALSE, dropped |-> 0]
  /\ ServerIdle
  /\ wire = [pc |-> "idle"]
  /\ cli = [pc |-> "idle"]

\* One Write of the next bytes of the body.
DotWrite ==
  /\ dot.pc = "write" /\ dot.todo # <<>>
  /\ \E k \in 1..Len(dot.todo) :
       dot' = [dot EXCEPT !.dw = dotWrite(dot.dw, SubSeq(dot.todo, 1, k)),
                          !.todo = SubSeq(dot.todo, k + 1, Len(dot.todo))]
  /\ UNCHANGED <<sessionVars, serverVars, wire, cli>>

\* Close once the body is written; the reader is then set on what the writer
\* produced, followed by the bytes that come after it on the stream.
DotClose ==
  /\ dot.pc = "write" /\ dot.todo = <<>>
  /\ LET dw1 == dotClose(dot.dw)
     IN dot' = [dot EXCEPT !.dw = dw1, !.dr = newDotReader(dw1.w \o dot.trailer),
                           !.pc = "read"]
  /\ UNCHANGED <<sessionVars, serverVars, wire, cli>>

\* One Read, as io.ReadAll issues them, into a buffer of 1..MaxBuf bytes.
DotRead ==
  /\ dot.pc = "read"
  /\ \E len \in 1..MaxBuf :
       LET res == dotRead(dot.dr, len)
       IN dot' = [dot EXCEPT !.dr = res.d, !.out = dot.out \o res.p,
                             !.pc = IF res.err = "EOF" THEN "done" ELSE "read"]
  /\ UNCHANGED <<sessionVars, serverVars, wire, cli>>

\* A Write or a Close on the writer after its Close (dot.go:160-162,
\* 186-188); dot.late counts them and dot.call is the last one with the
\* error it returned.
DotLate ==
  /\ dot.pc \in {"read", "done"} /\ dot.late < MaxLate
  /\ \E op \in {"Write", "Close"}, p \in {<<".">>, <<"a", LF>>} :
       /\ op = "Close" => p = <<".">>
       /\ dot' = [dot EXCEPT
                    !.dw = IF op = "Write" THEN dotWrite(dot.dw, p) ELSE dotClose(dot.dw),
                    !.late = @ + 1,
                    !.call = [op |-> op,
                              err |-> IF op = "Write" /\ dot.dw.closed
                                        THEN "ErrClosedPipe" ELSE "nil"]]
  /\ UNCHANGED <<sessionVars, serverVars, wire, cli>>

NextDot == DotWrite \/ DotClose \/ DotRead \/ DotLate

SpecDot == InitDot /\ [][NextDot]_vars

\* What the round trip is to return for body b.
RoundTrip(b) == IF b = <<>> \/ b[Len(b)] = LF THEN b ELSE b \o <<CR, LF>>

\* C19: once the dot reader has reported the end of the body written by the
\* dot writer, the bytes it returned are the body itself when the body is
\* empty or ends with LF and the body followed by CRLF otherwise, and the
\* bytes that follow the terminator are all still unread.
C19_DotRoundTrip ==
  dot.pc = "done" => /\ dot.out = RoundTrip(dot.body)
                     /\ dot.dr.r = dot.trailer

\* A body with a line that is a single dot and a last line that starts with
\* a dot and has no line ending went through, with bytes behind the terminator.
C19_Witness ==
  /\ dot.pc = "done"
  /\ dot.body = <<".", CR, LF, ".">>
  /\ dot.out = <<".", CR, LF, ".", CR, LF>>
  /\ dot.trailer # <<>> /\ dot.dr.r = dot.trailer

(***************************************************************************)
(* BDAT on the connection's bytes (session.go:101-157, 400-455;            *)
(* conn.go:86-113).  conn.r is the bytes the buffered reader and the       *)
(* transport behind it hold, one-character strings: the command loop reads *)
(* its lines from them with ReadLine and handleBDAT its chunks with        *)
(* io.ReadFull.  The session is in state Rcpt and the client has written   *)
(* a sequence of chunks, the last one marked LAST, and then QUIT or        *)
(* nothing.  hist records what the client wrote (chunks, quit), how many   *)
(* lines ReadLine has returned, the result of the DataHandler (res) and    *)
(* the calls made of it.                                                   *)
(***************************************************************************)
MaxChunk == 2    \* bytes in a chunk
MaxChunks == 2   \* chunks in a transaction

\* The bytes of a BDAT chunk: a dot, which a dot reader would drop or take
\* for the start of the end of a body, a letter, and the line feed that ends
\* a command line.
Bytes == {".", "a", LF}

\* The chunks of k bytes, and the chunk sequences a client sends.
Chunks(k) == [1..k -> Bytes]
ChunkSeqs == UNION { [1..n -> UNION { Chunks(k) : k \in 0..MaxChunk }] : n \in 1..MaxChunks }

\* %d of a chunk size (session_test.go:968, 976).
Digit(n) == <<"0", "1", "2", "3", "4", "5", "6", "7", "8", "9">>[n + 1]

\* What the client writes for a chunk: the BDAT line and the chunk's bytes
\* (session_test.go:966-979).
BdatText(chunk, last) ==
  <<"B", "D", "A", "T", " ", Digit(Len(chunk))>>
    \o (IF last THEN <<" ", "L", "A", "S", "T">> ELSE <<>>)
    \o <<CR, LF>> \o chunk

\* What the client writes from chunk i on: the chunks, and then QUIT or
\* nothing.
RECURSIVE Sent(_, _, _)
Sent(cs, i, bye) ==
  IF i > Len(cs) THEN (IF bye THEN <<"Q", "U", "I", "T", CR, LF>> ELSE <<>>)
  ELSE BdatText(cs[i], i = Len(cs)) \o Sent(cs, i + 1, bye)

\* Conn.ReadLine (conn.go:86-113) over bufio's ReadLine: the bytes up to
\* the first line feed, without it and without a carriage return before
\* it.  When the bytes end with no line feed bufio hands out what is left
\* as a line, and fails when nothing is left.  (No line of the model comes
\* near MaxCommandLineLen.)
ReadLine(r) ==
  IF \E i \in 1..Len(r) : r[i] = LF
    THEN LET i == CHOOSE i \in 1..Len(r) : r[i] = LF /\ \A j \in 1..(i - 1) : r[j] # LF
             cr == i > 1 /\ r[i - 1] = CR
         IN [err |-> FALSE, line |-> SubSeq(r, 1, IF cr THEN i - 2 ELSE i - 1),
             rest |-> SubSeq(r, i + 1, Len(r))]
  ELSE IF r # <<>> THEN [err |-> FALSE, line |-> r, rest |-> <<>>]
  ELSE [err |-> TRUE, line |-> <<>>, rest |-> <<>>]

\* io.ReadFull(br, chunk) (session.go:424-428): exactly n bytes, or an error
\* when the bytes end before.
ReadFull(r, n) ==
  IF Len(r) >= n
    THEN [err |-> FALSE, p |-> SubSeq(r, 1, n), rest |-> SubSeq(r, n + 1, Len(r))]
  ELSE [err |-> TRUE, p |-> <<>>, rest |-> <<>>]

\* string(line), and strings.Cut(line, " ") (session.go:163): the line as
\* dispatch takes it.
RECURSIVE Str(_)
Str(bytes) == IF bytes = <<>> THEN "" ELSE Head(bytes) \o Str(Tail(bytes))
Cut(line) ==
  IF \E i \in 1..Len(line) : line[i] = " "
    THEN LET i == CHOOSE i \in 1..Len(line) :
                    line[i] = " " /\ \A j \in 1..(i - 1) : line[j] # " "
         IN L(Str(SubSeq(line, 1, i - 1)), Str(SubSeq(line, i + 1, Len(line))))
  ELSE L(Str(line), "")

\* The session after EHLO, MAIL and RCPT, each accepted.
RcptSession ==
  LET s1 == dispatch(newSession, L("EHLO", "c.test"), "ok").sess
      s2 == dispatch(s1, L("MAIL", "FROM:<a@x>"), "ok").sess
  IN dispatch(s2, L("RCPT", "TO:<b@y>"), "ok").sess

InitBdat ==
  /\ server = Config(FALSE, FALSE, FALSE, MaxInvalid)
  /\ sess = RcptSession
  /\ \E cs \in ChunkSeqs, bye \in BOOLEAN :
       /\ conn = [net |-> "tcp", r |-> Sent(cs, 1, bye)]
       /\ hist = [chunks |-> cs, quit |-> bye, lines |-> 0, res |-> "nil", calls |-> <<>>]
  /\ alive = TRUE
  /\ pc = "cmd"
  /\ pend = NoPend
  /\ lastCmd = [verb |-> "RCPT", args |-> "TO:<b@y>", nul |-> FALSE, via |-> "tcp",
                st |-> stateMail]
  /\ replies = <<>>
  /\ onData = NoCall
  /\ nInvalid = 0
  /\ ServerIdle
  /\ dot = DotIdle
  /\ wire = [pc |-> "idle"]
  /\ cli = [pc |-> "idle"]

\* The DataHandler's call and result, kept when a step made the call or
\* ended the transaction.
Called(h, ret, res) ==
  [h EXCEPT !.res = IF sess.state = stateRcpt /\ ret.sess.state = stateGreeted
                      THEN res ELSE @,
            !.calls = IF ret.onData.called THEN Append(@, ret.onData) ELSE @]

\* One iteration of the command loop (session.go:101-157): ReadLine takes a
\* line off the bytes and the line is dispatched; when ReadLine fails
\* handleConn returns.
BdatLine ==
  /\ pc = "cmd"
  /\ LET rl == ReadLine(conn.r) IN
       IF rl.err
         THEN /\ pc' = "done"
              /\ UNCHANGED <<sess, conn, pend, lastCmd, replies, onData, hist>>
         ELSE \E res \in ResultsFor(Cut(rl.line)) :
                LET ret == dispatch(sess, Cut(rl.line), res) IN
                  /\ sess' = ret.sess
                  /\ replies' = replies \o ret.out
                  /\ pc' = ret.pc
                  /\ pend' = ret.pend
                  /\ onData' = ret.onData
                  /\ conn' = [conn EXCEPT !.r = rl.rest]
                  /\ lastCmd' = [verb |-> parseCommand(Cut(rl.line)).verb,
                                 args |-> parseCommand(Cut(rl.line)).args,
                                 nul |-> FALSE, via |-> conn.net, st |-> sess.state]
                  /\ hist' = [Called(hist, ret, res) EXCEPT !.lines = @ + 1]
  /\ UNCHANGED <<server, alive, nInvalid>>
  /\ UNCHANGED <<serverVars, dot, wire, cli>>

\* handleBDAT from the read of the chunk on (session.go:422-455):
\* io.ReadFull takes the chunk off the bytes; when it fails handleBDAT
\* returns with no reply.
BdatBytes ==
  /\ pc = "bdat"
  /\ LET rf == ReadFull(conn.r, pend.size) IN
       IF rf.err
         THEN /\ pc' = "cmd"
              /\ conn' = [conn EXCEPT !.r = <<>>]
              /\ UNCHANGED <<sess, replies, onData, hist>>
         ELSE \E res \in (IF pend.last THEN HandlerResults ELSE {"nil"}) :
                LET ret == bdatChunk(sess, pend.size, pend.last, rf.p, res) IN
                  /\ sess' = ret.sess
                  /\ replies' = replies \o ret.out
                  /\ pc' = ret.pc
                  /\ onData' = ret.onData
                  /\ conn' = [conn EXCEPT !.r = rf.rest]
                  /\ hist' = Called(hist, ret, res)
  /\ pend' = NoPend
  /\ UNCHANGED <<server, alive, lastCmd, nInvalid>>
  /\ UNCHANGED <<serverVars, dot, wire, cli>>

NextBdat == BdatLine \/ BdatBytes

SpecBdat == InitBdat /\ [][NextBdat]_vars

\* The first n chunks, one after the other.
RECURSIVE Concat(_, _)
Concat(cs, n) == IF n = 0 THEN <<>> ELSE Concat(cs, n - 1) \o cs[n]

\* The transaction of chunks cs is delivered: one DataHandler call, when a
\* DataHandler is configured, with all the chunks in the order they were
\* sent, for the transaction's sender and recipients; every chunk but the
\* last answered 250 and the last with the handler's reply; the session
\* back in Greeted with an empty transaction.
Delivered(cs) ==
  /\ hist.calls = IF hist.res = "nil" THEN <<>>
                  ELSE <<[called |-> TRUE, from |-> RcptSession.reversePath,
                          to |-> RcptSession.forwardPaths,
                          body |-> Concat(cs, Len(cs))]>>
  /\ Len(replies) >= Len(cs)
  /\ \A i \in 1..(Len(cs) - 1) : replies[i].code = ReplyOK
  /\ replies[Len(cs)].code = IF Failed(hist.res) THEN errorReply(hist.res, internalError).code
                             ELSE ReplyOK
  /\ sess.state = stateGreeted /\ TxnEmpty(sess)

\* C20: a session in state Rcpt whose connection holds BDAT n1, chunk 1,
\* ..., BDAT nk LAST, chunk k and then QUIT or nothing.  After j lines the
\* loop is where the client's j-th line put it: reading chunk j, with
\* chunk j and all the client wrote behind it still unread; or at the next
\* command, with exactly what the client wrote behind chunk j unread.  Each
\* chunk before the last is answered 250 and nothing else, is appended to
\* the buffer as it is, and makes no DataHandler call; the last one makes
\* the one call with the k chunks in order.  What is read after the last
\* chunk is the client's QUIT, answered 221, or the end of the bytes: no
\* byte of a chunk is read as part of a command line.
C20_BdatChunks ==
  LET cs == hist.chunks
      k == Len(hist.chunks)
      j == hist.lines
      InProgress(n) ==
        /\ Codes(replies) = [i \in 1..n |-> ReplyOK]
        /\ sess.bdatBuffer = Concat(cs, n)
        /\ sess.state = stateRcpt
        /\ hist.calls = <<>>
  IN CASE pc = "bdat" ->
            /\ j \in 1..k
            /\ pend = [kind |-> "bdat", size |-> Len(cs[j]), last |-> j = k]
            /\ conn.r = cs[j] \o Sent(cs, j + 1, hist.quit)
            /\ InProgress(j - 1)
       [] pc = "cmd" ->
            /\ j \in 0..k
            /\ conn.r = Sent(cs, j + 1, hist.quit)
            /\ IF j < k THEN InProgress(j) ELSE Delivered(cs) /\ Len(replies) = k
       [] pc = "done" ->
            /\ conn.r = <<>>
            /\ Delivered(cs)
            /\ IF hist.quit
                 THEN /\ j = k + 1 /\ Len(replies) = k + 1
                      /\ replies[k + 1].code = ReplyServiceClosing
                 ELSE j = k /\ Len(replies) = k

\* C20 witness: the chunks "\n", "a" and "." LAST were sent, then QUIT; the
\* DataHandler was called once with the three bytes in that order, and the
\* replies were 250, 250, 221.
C20_Witness ==
  /\ pc = "done"
  /\ hist.chunks = << <<LF, "a">>, <<".">> >> /\ hist.quit
  /\ Len(hist.calls) = 1 /\ hist.calls[1].body = <<LF, "a", ".">>
  /\ Codes(replies) = <<ReplyOK, ReplyOK, ReplyServiceClosing>>

\* A reply that ends the answer to a command: any reply that is not a 3yz
\* intermediate one (354, 334).
Final(r) == r.code \div 100 # 3

\* C21 as stated: whenever the command loop is about to read a command line
\* from a transport that still works, the line it read before has been
\* answered in full: the replies written since that line was read end with
\* its one final reply, behind intermediate replies only.
C21_ReplyBeforeNextRead ==
  (pc = "cmd" /\ alive /\ lastCmd.verb \notin {"<greeting>", "<error>"})
    => /\ Len(replies) >= 1
       /\ Final(replies[Len(replies)])
       /\ \A i \in 1..(Len(replies) - 1) : ~Final(replies[i])

(***************************************************************************)
(* Handler errors.                                                         *)
(***************************************************************************)
\* What the server is to write when a handler fails with res.
HandlerErrorReply(res) ==
  IF res = "smtperr" THEN reply(PolicyError.code, PolicyError.enh, PolicyError.msg)
  ELSE reply(ReplyLocalError, EnhancedCodeOtherNetwork, "Internal error")

\* C22: for a HELO/EHLO, MAIL or RCPT line that gets as far as its handler
\* (the line is accepted when the handler succeeds), a handler error is
\* answered with the SMTPError's own reply, or with 451 4.4.0 for another
\* error, and leaves the whole session record as it was; and whenever such a
\* command is answered that way the session, with its state, reverse-path
\* and recipient list, is unchanged.
C22_HandlerErrorKeepsSession ==
  [][(/\ pc = "cmd"
      /\ lastCmd'.verb \in {"EHLO", "HELO", "MAIL", "RCPT"} /\ ~lastCmd'.nul)
       => LET line == L(lastCmd'.verb, lastCmd'.args) IN
          /\ (dispatch(sess, line, "ok").out[1].code = ReplyOK
                => \A res \in {"smtperr", "err"} :
                     dispatch(sess, line, res) = Ret(sess, <<HandlerErrorReply(res)>>))
          /\ (\E res \in {"smtperr", "err"} : replies' = <<HandlerErrorReply(res)>>)
                => sess' = sess]_vars

\* The RcptHandler rejected a recipient of a transaction that already had
\* one: the list still holds that one recipient and the state is Rcpt, in
\* which RCPT is accepted.
C22_Witness ==
  /\ Issued("RCPT") /\ lastCmd.args = "TO:<b@y>" /\ lastCmd.st = stateRcpt
  /\ replies = <<HandlerErrorReply("smtperr")>>
  /\ Len(sess.forwardPaths) = 1 /\ sess.state = stateRcpt
  /\ handleRCPT(sess, "TO:<b@y>", "ok").out[1].code = ReplyOK

\* C24 as stated: every reply the server itself composes since the latest
\* command line that carries an enhanced status code has the class of its
\* reply code as the first number of that enhanced code.  (The replies a
\* handler's SMTPError dictates are not the server's.)
C24_EnhancedClassMatches ==
  \A i \in 1..Len(replies) :
    (replies[i].enh # EnhancedCodeZero /\ replies[i] # HandlerErrorReply("smtperr"))
      => replies[i].enh[1] = replies[i].code \div 100

(***************************************************************************)
(* The serialisation of a handler's SMTPError.  A message is a sequence of *)
(* characters, "a" standing for every character but the line feed; the     *)
(* text of a reply line is a sequence of such characters with the enhanced *)
(* code, when there is one, as one element in front.                       *)
(***************************************************************************)
MaxMsg == 3   \* longest SMTPError message

\* The SMTPErrors a handler returns.
SMTPErrors ==
  { [code |-> c, enh |-> e, msg |-> m] :
      c \in {ReplyMailboxNotFound, ReplyLocalError},
      e \in {EnhancedCodeZero, EnhancedCodeBadDest},
      m \in UNION { [1..n -> {"a", LF}] : n \in 0..MaxMsg } }

\* Conn.WriteReply (conn.go:188-206): one "<code><sep><line>CRLF" per line.
WriteReply(code, lines) ==
  LET ls == IF lines = <<>> THEN << <<>> >> ELSE lines
  IN [i \in 1..Len(ls) |->
        [code |-> code, sep |-> IF i < Len(ls) THEN "-" ELSE " ", text |-> ls[i]]]

\* session.reply down to the wire (session.go:169-177).
replyOnWire(code, enhanced, msg) ==
  WriteReply(code, << IF enhanced # EnhancedCodeZero THEN <<enhanced, " ">> \o msg
                      ELSE msg >>)

\* strings.Split(msg, "\n")
RECURSIVE Split(_)
Split(msg) ==
  IF \A i \in 1..Len(msg) : msg[i] # LF THEN <<msg>>
  ELSE LET i == CHOOSE j \in 1..Len(msg) :
                  msg[j] = LF /\ \A h \in 1..(j - 1) : msg[h] # LF
       IN <<SubSeq(msg, 1, i - 1)>> \o Split(SubSeq(msg, i + 1, Len(msg)))

\* SMTPError.WireLines (errors.go:32-54)
WireLines(e) ==
  LET lines == Split(IF e.msg = <<>> THEN <<"Error">> ELSE e.msg)
  IN [i \in 1..Len(lines) |->
        [code |-> e.code, sep |-> IF i < Len(lines) THEN "-" ELSE " ",
         text |-> (IF e.enh # EnhancedCodeZero THEN <<e.enh, " ">> ELSE <<>>)
                    \o lines[i]]]

\* A handler has returned an SMTPError.
InitReply ==
  /\ wire \in { [pc |-> "handler", err |-> e, out |-> <<>>] : e \in SMTPErrors }
  /\ server = Config(FALSE, FALSE, FALSE, MaxInvalid)
  /\ sess = newSession
  /\ conn = [net |-> "tcp", r |-> <<>>]
  /\ alive = TRUE
  /\ pc = "cmd"
  /\ pend = NoPend
  /\ lastCmd = [verb |-> "<greeting>", args |-> "", nul |-> FALSE, via |-> "tcp",
                st |-> stateNew]
  /\ replies = <<reply(ReplyServiceReady, EnhancedCodeZero, "ESMTP ready")>>
  /\ onData = NoCall
  /\ nInvalid = 0
  /\ hist = [awaitHello |-> FALSE, dropped |-> 0]
  /\ ServerIdle
  /\ dot = DotIdle
  /\ cli = [pc |-> "idle"]

\* The session answers with the error (session.go:297-299 and alike).
ServerReply ==
  /\ wire.pc = "handler"
  /\ wire' = [wire EXCEPT !.pc = "replied",
                          !.out = replyOnWire(wire.err.code, wire.err.enh, wire.err.msg)]
  /\ UNCHANGED <<sessionVars, serverVars, dot, cli>>

\* The error is formatted with WireLines instead.
FormatWireLines ==
  /\ wire.pc = "handler"
  /\ wire' = [wire EXCEPT !.pc = "formatted", !.out = WireLines(wire.err)]
  /\ UNCHANGED <<sessionVars, serverVars, dot, cli>>

NextReply == ServerReply \/ FormatWireLines

SpecReply == InitReply /\ [][NextReply]_vars

\* C23 as stated: the reply the server writes for a handler's SMTPError has
\* one line per newline-separated line of the message, with "-" after the
\* code on all but the last and a space on the last, the enhanced code in
\* front of the text of every line, and no line feed inside any line.
C23_MultilineErrorReply ==
  wire.pc = "replied" =>
    LET e == wire.err
        k == Len(Split(e.msg))
    IN /\ Len(wire.out) = k
       /\ \A i \in 1..Len(wire.out) :
            /\ wire.out[i].code = e.code
            /\ wire.out[i].sep = (IF i < Len(wire.out) THEN "-" ELSE " ")
            /\ e.enh # EnhancedCodeZero
                 => Len(wire.out[i].text) >= 1 /\ wire.out[i].text[1] = e.enh
            /\ \A j \in 1..Len(wire.out[i].text) : wire.out[i].text[j] # LF

(***************************************************************************)
(* AUTH refused.                                                           *)
(***************************************************************************)
\* The session states in which AUTH is out of place: no EHLO/HELO accepted,
\* a mail transaction open, or already authenticated.
AuthOutOfPlace(s) == s.state < stateGreeted \/ s.state >= stateMail \/ s.authenticated

\* C25 as stated: AUTH is answered 503 whenever it is out of place and 502
\* whenever no AuthHandler is configured, and in those cases nothing of the
\* session changes.
C25_AuthRefusals ==
  [][(pc = "cmd" /\ lastCmd'.verb = "AUTH" /\ ~lastCmd'.nul)
       => /\ AuthOutOfPlace(sess) => Codes(replies') = <<ReplyBadSequence>>
          /\ ~server.authHandler => Codes(replies') = <<ReplyCommandNotImpl>>
          /\ (AuthOutOfPlace(sess) \/ ~server.authHandler)
               => sess' = sess /\ pc' = "cmd"]_vars

\* C25 amended: without an AuthHandler AUTH is answered 502 in every state;
\* with one, it is answered 503 whenever it is out of place.  In all these
\* cases the answer does not depend on what the AuthHandler would return (it
\* is not called), no exchange is begun and nothing of the session changes.
C25_AuthRefusalsByPrecedence ==
  [][(pc = "cmd" /\ lastCmd'.verb = "AUTH" /\ ~lastCmd'.nul)
       => /\ ~server.authHandler => Codes(replies') = <<ReplyCommandNotImpl>>
          /\ (server.authHandler /\ AuthOutOfPlace(sess))
               => Codes(replies') = <<ReplyBadSequence>>
          /\ (AuthOutOfPlace(sess) \/ ~server.authHandler)
               => /\ sess' = sess /\ pc' = "cmd"
                  /\ \A res \in HandlerResults :
                       handleAUTH(sess, lastCmd'.args, res) = Ret(sess, replies')]_vars

\* AUTH with credentials arrived in an open transaction of a session that
\* may authenticate, and was answered 503.
C25_Witness ==
  /\ Issued("AUTH") /\ lastCmd.args = "PLAIN AGdvb2QAcHc=" /\ lastCmd.st = stateMail
  /\ server.authHandler /\ ~sess.authenticated
  /\ Codes(replies) = <<ReplyBadSequence>>
  /\ sess.state = stateMail /\ pc = "cmd"

(***************************************************************************)
(* The client (smtpclient/client.go) against a server that may answer      *)
(* anything.  cli is [pc: the reply the client is blocked on, op: the      *)
(* exported call in progress or returned last, result: what it returned,   *)
(* tls: Client.tls, exts: Client.exts as a set of [kw, param] (empty for   *)
(* nil), mech, step: the SASL mechanism and the Next calls made on it,     *)
(* cfg: the tlsConfig argument is not nil, calls, rcpts, and log: the      *)
(* lines written ([line, tls]) and the replies read ([code, lines]; code 0 *)
(* is a failed read) during that call, in order].  A failed write is       *)
(* folded into the failed read that follows it.                            *)
(***************************************************************************)
MaxChallenges == 3   \* 334 replies the server sends in one AUTH exchange
MaxCalls      == 2   \* exported calls made on one client after Dial
NTo           == 1   \* recipients handed to SubmitMessage

\* The reply codes the server answers with; 0 is a failed ReadReply.
ServerCodes ==
  {0, ReplyServiceReady, ReplyAuthOK, ReplyOK, ReplyAuthContinue,
   ReplyStartMailInput, ReplyLocalError, ReplySyntaxError, ReplyCommandNotImpl}

\* The lines a 250 reply to EHLO may carry behind its greeting line.
Kw(k, p) == [kw |-> k, param |-> p]
EhloViews ==
  { <<>>, <<Kw("STARTTLS", "")>>, <<Kw("AUTH", "PLAIN LOGIN")>>,
    <<Kw("starttls", ""), Kw("SIZE", "100")>> }

\* smtp.ParseEHLOResponse (extensions.go:39-49)
ParseEHLOResponse(lines) ==
  { Kw(ToUpper(lines[i].kw), lines[i].param) : i \in 2..Len(lines) }

\* Extensions.Has (extensions.go:26-29)
Has(exts, ext) == \E e \in exts : e.kw = ext

\* Client.ServerMaxSize (client.go:262-273)
ServerMaxSize(c) ==
  IF c.exts = {} \/ ~Has(c.exts, "SIZE") THEN 0
  ELSE LET param == (CHOOSE e \in c.exts : e.kw = "SIZE").param
       IN IF param = "100" THEN 100 ELSE 0

\* WriteLine and ReadReply, as the log sees them.
Send(c, line) == [c EXCEPT !.log = Append(@, [line |-> line, tls |-> c.tls])]
Recv(c, code, lines) == [c EXCEPT !.log = Append(@, [code |-> code, lines |-> lines])]

\* The exported call returns err (nil when ok).
Return(c, ok) ==
  IF c.op = "dial" /\ ~ok
    THEN [c EXCEPT !.pc = "closed", !.result = "err"]
    ELSE [c EXCEPT !.pc = "ready", !.result = IF ok THEN "nil" ELSE "err"]

\* Client.Auth up to its first ReadReply (client.go:376-392).
authStart(c) ==
  [Send(c, "AUTH") EXCEPT !.pc = "auth", !.step = 0]

\* Client.Auth returns to its caller: SubmitMessage goes on with SendMail,
\* which starts with MAIL (client.go:449-454, 459-460).
authReturn(c, ok) ==
  IF c.op = "submit" /\ ok THEN [Send(c, "MAIL") EXCEPT !.pc = "mail"]
  ELSE Return(c, ok)

\* Client.ehlo returns to its caller: Dial/NewClient and StartTLS return its
\* result; SubmitMessage, which called StartTLS, goes on with Auth.
ehloReturn(c, ok) ==
  IF c.op = "submit" /\ ok THEN authStart(c) ELSE Return(c, ok)

\* A connection is made and the greeting awaited (client.go:67-97, 121-131).
InitClient ==
  /\ cli = [pc |-> "greeting", op |-> "dial", result |-> "", tls |-> FALSE,
            exts |-> {}, mech |-> "", step |-> 0, cfg |-> FALSE, calls |-> 0,
            rcpts |-> 0, log |-> <<>>]
  /\ server = Config(FALSE, FALSE, FALSE, MaxInvalid)
  /\ sess = newSession
  /\ conn = [net |-> "tcp", r |-> <<>>]
  /\ alive = TRUE
  /\ pc = "cmd"
  /\ pend = NoPend
  /\ lastCmd = [verb |-> "<greeting>", args |-> "", nul |-> FALSE, via |-> "tcp",
                st |-> stateNew]
  /\ replies = <<reply(ReplyServiceReady, EnhancedCodeZero, "ESMTP ready")>>
  /\ onData = NoCall
  /\ nInvalid = 0
  /\ hist = [awaitHello |-> FALSE, dropped |-> 0]
  /\ ServerIdle
  /\ dot = DotIdle
  /\ wire = [pc |-> "idle"]

\* The greeting arrives (client.go:98-116): 220 leads to ehlo, which sends EHLO.
Greeting ==
  /\ cli.pc = "greeting"
  /\ \E code \in ServerCodes :
       LET c == Recv(cli, code, <<>>) IN
       cli' = IF code = ReplyServiceReady
                THEN [Send(c, "EHLO") EXCEPT !.pc = "ehlo"]
                ELSE Return(c, FALSE)
  /\ UNCHANGED <<sessionVars, serverVars, dot, wire>>

\* Client.ehlo once the EHLO reply is read (client.go:158-180).
EhloReply_FallbackOnAnyError ==
  /\ cli.pc = "ehlo"
  /\ \E code \in ServerCodes, view \in EhloViews :
       LET lines == IF code = ReplyOK THEN <<Kw("host", "Hello")>> \o view ELSE <<>>
           c == Recv(cli, code, lines)
       IN /\ code # ReplyOK => view = <<>>
          /\ cli' = IF code = 0 THEN ehloReturn(c, FALSE)
                    ELSE IF code = ReplyOK
                      THEN ehloReturn([c EXCEPT !.exts = ParseEHLOResponse(lines)], TRUE)
                    ELSE [Send(c, "HELO") EXCEPT !.pc = "helo"]
  /\ UNCHANGED <<sessionVars, serverVars, dot, wire>>
EhloReply ==
  /\ cli.pc = "ehlo"
  /\ \E code \in ServerCodes, view \in EhloViews :
       LET lines == IF code = ReplyOK THEN <<Kw("host", "Hello")>> \o view ELSE <<>>
           c == Recv(cli, code, lines)
       IN /\ code # ReplyOK => view = <<>>
          /\ cli' = IF code = 0 THEN ehloReturn(c, FALSE)
                    ELSE IF code = ReplyOK
                      THEN ehloReturn([c EXCEPT !.exts = ParseEHLOResponse(lines)], TRUE)
                    ELSE IF code \in {ReplySyntaxError, ReplyCommandNotImpl}
                      THEN [Send(c, "HELO") EXCEPT !.pc = "helo"]
                    ELSE ehloReturn(c, FALSE)
  /\ UNCHANGED <<sessionVars, serverVars, dot, wire>>

\* Client.ehlo once the HELO reply is read (client.go:169-177).
HeloReply ==
  /\ cli.pc = "helo"
  /\ \E code \in ServerCodes :
       LET c == Recv(cli, code, <<>>) IN
       cli' = IF code = ReplyOK THEN ehloReturn([c EXCEPT !.exts = {}], TRUE)
              ELSE ehloReturn(c, FALSE)
  /\ UNCHANGED <<sessionVars, serverVars, dot, wire>>

\* The application calls StartTLS, Auth or SubmitMessage on the client, up
\* to the first reply that call waits for (client.go:344-349, 376-392, 440-451).
Call ==
  /\ cli.pc = "ready" /\ cli.calls < MaxCalls
  /\ \E op \in {"starttls", "auth", "submit"}, mech \in {"PLAIN", "LOGIN"},
        cfg \in BOOLEAN :
       LET c == [cli EXCEPT !.op = op, !.result = "", !.mech = mech, !.cfg = cfg,
                            !.calls = @ + 1, !.rcpts = 0, !.step = 0, !.log = <<>>]
       IN /\ op = "starttls" => mech = "PLAIN" /\ cfg
          /\ op = "auth" => cfg
          /\ cli' = IF \/ op = "starttls"
                       \/ (op = "submit" /\ ~c.tls /\ Has(c.exts, "STARTTLS") /\ cfg)
                      THEN [Send(c, "STARTTLS") EXCEPT !.pc = "starttls"]
                      ELSE authStart(c)
  /\ UNCHANGED <<sessionVars, serverVars, dot, wire>>

\* Client.StartTLS once the STARTTLS reply is read (client.go:347-355).
StartTLSReply ==
  /\ cli.pc = "starttls"
  /\ \E code \in ServerCodes :
       LET c == Recv(cli, code, <<>>) IN
       cli' = IF code = ReplyServiceReady THEN [c EXCEPT !.pc = "handshake"]
              ELSE Return(c, FALSE)
  /\ UNCHANGED <<sessionVars, serverVars, dot, wire>>

\* The TLS handshake ends (client.go:357-367): on success the transport is
\* replaced, the client is marked TLS and ehlo sends EHLO again.
TLSHandshake ==
  /\ cli.pc = "handshake"
  /\ \E ok \in BOOLEAN :
       cli' = IF ok THEN [Send([cli EXCEPT !.tls = TRUE], "EHLO") EXCEPT !.pc = "ehlo"]
              ELSE Return(cli, FALSE)
  /\ UNCHANGED <<sessionVars, serverVars, dot, wire>>

\* mech.Next fails (sasl.go:41-43, 62-74): PLAIN on any challenge, LOGIN on
\* the third.
NextFails(c) == c.mech = "PLAIN" \/ c.step >= 2

\* One turn of the loop of Client.Auth (client.go:395-428); decodable says
\* whether the challenge of a 334 is valid base64.
AuthReply ==
  /\ cli.pc = "auth"
  /\ \E code \in ServerCodes, decodable \in BOOLEAN :
       LET c == Recv(cli, code, <<>>) IN
       /\ code # ReplyAuthContinue => decodable
       /\ code = ReplyAuthContinue =>
            Cardinality({i \in 1..Len(cli.log) :
                           "code" \in DOMAIN cli.log[i]
                             /\ cli.log[i].code = ReplyAuthContinue}) < MaxChallenges
       /\ cli' = IF code = ReplyAuthOK THEN authReturn(c, TRUE)
                 ELSE IF code # ReplyAuthContinue \/ ~decodable THEN authReturn(c, FALSE)
                 ELSE IF NextFails(c) THEN [Send(c, "*") EXCEPT !.pc = "authAbort"]
                 ELSE [Send(c, "response") EXCEPT !.step = @ + 1]
  /\ UNCHANGED <<sessionVars, serverVars, dot, wire>>

\* The reply to the "*" that cancelled the exchange is read and dropped
\* (client.go:418-420).
AuthAbortReply ==
  /\ cli.pc = "authAbort"
  /\ \E code \in ServerCodes :
       cli' = authReturn(Recv(cli, code, <<>>), FALSE)
  /\ UNCHANGED <<sessionVars, serverVars, dot, wire>>

\* SendMail: the replies to MAIL, to each RCPT, to DATA and to the body
\* (client.go:457-467, 216-225, 244-253, 278-303).
SendMailReply ==
  /\ cli.pc \in {"mail", "rcpt", "data", "body"}
  /\ \E code \in ServerCodes :
       LET c == Recv(cli, code, <<>>) IN
       cli' =
         CASE cli.pc \in {"mail", "rcpt"} ->
                IF code # ReplyOK THEN Return(c, FALSE)
                ELSE IF c.rcpts < NTo
                  THEN [Send(c, "RCPT") EXCEPT !.pc = "rcpt", !.rcpts = @ + 1]
                ELSE [Send(c, "DATA") EXCEPT !.pc = "data"]
           [] cli.pc = "data" ->
                IF code # ReplyStartMailInput THEN Return(c, FALSE)
                ELSE [Send(c, "body") EXCEPT !.pc = "body"]
           [] cli.pc = "body" -> Return(c, code = ReplyOK)
  /\ UNCHANGED <<sessionVars, serverVars, dot, wire>>

NextClient ==
  \/ Greeting \/ EhloReply \/ HeloReply \/ Call \/ StartTLSReply \/ TLSHandshake
  \/ AuthReply \/ AuthAbortReply \/ SendMailReply

SpecClient == InitClient /\ [][NextClient]_vars

\* What the step from cli to cli' read, and whether it then wrote line.
Read1 == cli'.log[Len(cli.log) + 1]
Wrote(line) ==
  /\ Len(cli'.log) = Len(cli.log) + 2
  /\ cli'.log[Len(cli'.log)] = [line |-> line, tls |-> cli'.tls]
IsLine(e) == "line" \in DOMAIN e
IsReply(e) == "code" \in DOMAIN e

\* C26: the client sends HELO exactly when the reply it read to EHLO has code
\* 500 or 502; a HELO answered 250 leaves an empty extension view, with
\* ServerMaxSize 0; while a session is opened, any EHLO reply other than 250,
\* 500 and 502, and any HELO reply other than 250, ends the operation with an
\* error and no client.
C26_HeloFallback ==
  [][/\ cli.pc \in {"greeting", "ehlo", "helo", "starttls", "auth", "authAbort",
                    "mail", "rcpt", "data", "body"}
          => (Wrote("HELO") <=>
                cli.pc = "ehlo" /\ Read1.code \in {ReplySyntaxError, ReplyCommandNotImpl})
     /\ cli.pc \in {"ready", "handshake"} => ~(\E i \in 1..Len(cli'.log) :
                                 i > Len(cli.log) /\ IsLine(cli'.log[i])
                                   /\ cli'.log[i].line = "HELO")
     /\ (cli.pc = "helo" /\ Read1.code = ReplyOK)
          => /\ cli'.exts = {} /\ ServerMaxSize(cli') = 0
             /\ cli.op = "dial" => cli'.pc = "ready" /\ cli'.result = "nil"
     /\ (/\ cli.op = "dial"
         /\ \/ cli.pc = "ehlo" /\ Read1.code \notin
                                    {ReplyOK, ReplySyntaxError, ReplyCommandNotImpl}
            \/ cli.pc = "helo" /\ Read1.code # ReplyOK)
          => cli'.pc = "closed" /\ cli'.result = "err"]_vars

C26_Witness ==
  /\ cli.op = "dial" /\ cli.pc = "ready" /\ cli.result = "nil"
  /\ Len(cli.log) = 5
  /\ cli.log[3].code = ReplyCommandNotImpl
  /\ cli.log[4] = [line |-> "HELO", tls |-> FALSE]
  /\ cli.log[5].code = ReplyOK
  /\ cli.exts = {} /\ ServerMaxSize(cli) = 0

\* C27: once StartTLS has completed the handshake, read a reply to its EHLO
\* and returned, the client is marked TLS and its extensions are those of
\* that EHLO reply,
\* with nothing kept from before; a STARTTLS reply other than 220 leaves the
\* TLS flag and the extensions as they were and attempts no handshake.
TLSView(c) ==
  LET ehlo == c.log[4]
  IN IF IsReply(ehlo) /\ ehlo.code = ReplyOK THEN ParseEHLOResponse(ehlo.lines)
     ELSE {}
C27_StartTLSRefreshesExtensions ==
  (cli.op = "starttls" /\ cli.pc = "ready" /\ Len(cli.log) >= 4
     /\ cli.log[2].code = ReplyServiceReady /\ cli.log[4].code # 0)
    => cli.tls /\ cli.exts = TLSView(cli)
C27_StartTLSRefused ==
  [][(cli.pc = "starttls" /\ Read1.code # ReplyServiceReady)
       => /\ cli'.pc # "handshake"
          /\ cli'.tls = cli.tls /\ cli'.exts = cli.exts]_vars

\* Client.Auth returned nil, or an error, in the step from cli to cli'.
AuthSucceeded ==
  IF cli.op = "submit" THEN cli'.pc = "mail"
  ELSE cli'.pc = "ready" /\ cli'.result = "nil"
AuthFailed == cli'.pc = "ready" /\ cli'.result = "err"

\* C28: Auth returns nil only on reading 235; on each 334 it writes exactly
\* one line, the response and then reads again, or "*" when the mechanism's
\* Next fails, and after "*" it reads exactly one reply and returns the error;
\* any other reply ends the exchange with an error.
C28_AuthExchange ==
  [][/\ cli.pc = "auth" =>
          /\ AuthSucceeded <=> Read1.code = ReplyAuthOK
          /\ Read1.code \notin {ReplyAuthOK, ReplyAuthContinue} =>
               AuthFailed /\ Len(cli'.log) = Len(cli.log) + 1
          /\ Read1.code = ReplyAuthContinue =>
               IF NextFails(cli) THEN Wrote("*") /\ cli'.pc = "authAbort"
               ELSE Wrote("response") /\ cli'.pc = "auth"
     /\ cli.pc = "authAbort" =>
          AuthFailed /\ Len(cli'.log) = Len(cli.log) + 1]_vars

\* C29: SubmitMessage writes AUTH only on a connection that is TLS, and
\* writes MAIL only directly after reading the 235 that ends Auth.
C29_SubmitAuthOnlyOverTLS ==
  cli.op = "submit" =>
    \A i \in 1..Len(cli.log) :
      /\ (IsLine(cli.log[i]) /\ cli.log[i].line = "AUTH") => cli.log[i].tls
      /\ (IsLine(cli.log[i]) /\ cli.log[i].line = "MAIL") =>
           i > 1 /\ IsReply(cli.log[i - 1]) /\ cli.log[i - 1].code = ReplyAuthOK
C29_MailAfterAuth ==
  cli.op = "submit" =>
    \A i \in 1..Len(cli.log) :
      (IsLine(cli.log[i]) /\ cli.log[i].line = "MAIL") =>
        /\ i > 1 /\ IsReply(cli.log[i - 1]) /\ cli.log[i - 1].code = ReplyAuthOK
        /\ \E j \in 1..(i - 1) : IsLine(cli.log[j]) /\ cli.log[j].line = "AUTH"

(***************************************************************************)
(* The body of DATA on the wire (session.go:362-397).  The 354 is written, *)
(* dot.wire is what the client sends from there on, dot.dr the dot reader  *)
(* handed to the DataHandler over the connection's buffered reader,        *)
(* dot.out what the handler has read and dot.code the reply that ends      *)
(* handleDATA.  What dot.dr.r holds at the end is what ReadLine reads the  *)
(* next command from.                                                      *)
(***************************************************************************)
MaxWire == 6   \* bytes on the wire behind DATA

Wires == UNION { [1..n -> DotBytes] : n \in 0..MaxWire }

\* io.Copy(io.Discard, reader) (session.go:378, 391): Read into a buffer
\* larger than what is left until Read returns an error.
drain_Skipped(d) == d
RECURSIVE drain(_)
drain(d) ==
  LET res == dotRead(d, Len(d.r) + 1)
  IN IF res.err # "nil" THEN res.d ELSE drain(res.d)

InitData ==
  /\ dot \in { [pc |-> "handler", wire |-> w, dr |-> newDotReader(w),
                out |-> <<>>, seen |-> "nil", code |-> ReplyStartMailInput] :
               w \in Wires }
  /\ server = Config(FALSE, FALSE, FALSE, MaxInvalid)
  /\ sess = newSession
  /\ conn = [net |-> "tcp", r |-> <<>>]
  /\ alive = TRUE
  /\ pc = "cmd"
  /\ pend = NoPend
  /\ lastCmd = [verb |-> "<greeting>", args |-> "", nul |-> FALSE, via |-> "tcp",
                st |-> stateNew]
  /\ replies = <<reply(ReplyServiceReady, EnhancedCodeZero, "ESMTP ready")>>
  /\ onData = NoCall
  /\ nInvalid = 0
  /\ hist = [awaitHello |-> FALSE, dropped |-> 0]
  /\ ServerIdle
  /\ wire = [pc |-> "idle"]
  /\ cli = [pc |-> "idle"]

\* The DataHandler reads from the reader it was given (session.go:375).
\* Where the wire ends the transport fails: the client has closed, which
\* ReadByte reports as io.EOF, or the read deadline has fired.  dot.seen is
\* the error the handler got from its last Read.
HandlerRead ==
  /\ dot.pc = "handler"
  /\ \E len \in 1..MaxBuf, failure \in {"EOF", "timeout"} :
       LET res == dotRead(dot.dr, len)
       IN /\ res.err # "transport" => failure = "EOF"
          /\ dot' = [dot EXCEPT !.dr = res.d, !.out = dot.out \o res.p,
                                !.seen = IF res.err = "transport" THEN failure
                                         ELSE res.err]
  /\ UNCHANGED <<sessionVars, serverVars, wire, cli>>

\* OnData returns and handleDATA runs to its end (session.go:376-396): the
\* rest of the body is drained and the reply written.
HandlerReturn ==
  /\ dot.pc = "handler"
  /\ \E res \in {"ok", "smtperr", "err"} :
       dot' = [dot EXCEPT !.pc = "done", !.dr = drain(dot.dr),
                          !.code = IF res = "ok" THEN ReplyOK
                                   ELSE errorReply(res, internalError).code]
  /\ UNCHANGED <<sessionVars, serverVars, wire, cli>>

NextData == HandlerRead \/ HandlerReturn

SpecData == InitData /\ [][NextData]_vars

\* The index of the last byte of the first body terminator on wire w, 0 when
\* there is none.  A terminator is a dot first on its line that is followed
\* by the end of the line; AtLineStart says where lines start and eols how a
\* line may end.
TermEndAt(w, i, eols) ==
  IF \E e \in eols : i + Len(e) <= Len(w) /\ SubSeq(w, i + 1, i + Len(e)) = e
    THEN i + Len(CHOOSE e \in eols : i + Len(e) <= Len(w)
                                       /\ SubSeq(w, i + 1, i + Len(e)) = e)
    ELSE 0
TermEnd(w, eols) ==
  LET starts == { i \in 1..Len(w) :
                    /\ w[i] = "."
                    /\ i = 1 \/ w[i - 1] = LF
                    /\ TermEndAt(w, i, eols) # 0 }
  IN IF starts = {} THEN 0
     ELSE TermEndAt(w, CHOOSE i \in starts : \A j \in starts : i <= j, eols)
Consumed == Len(dot.wire) - Len(dot.dr.r)
Rest(w, n) == SubSeq(w, n + 1, Len(w))

\* C30 as stated: the terminator is a dot line ended by CRLF; the reader never
\* goes past it and handleDATA leaves the stream right behind it.
C30_ConsumedThroughDotCRLF ==
  LET end == TermEnd(dot.wire, {<<CR, LF>>})
  IN (dot.pc \in {"handler", "done"} /\ end # 0)
       => /\ Consumed <= end
          /\ dot.pc = "done" => dot.dr.r = Rest(dot.wire, end)

\* C30: when the wire behind DATA holds a line that is a single dot, ended by
\* CRLF or by LF alone, the dot reader never consumes a byte behind the
\* first such line, and once handleDATA has returned, whatever the handler
\* read and returned, the stream stands at the first byte behind that line.
C30_ConsumedThroughTerminator ==
  LET end == TermEnd(dot.wire, {<<CR, LF>>, <<LF>>})
  IN (dot.pc \in {"handler", "done"} /\ end # 0)
       => /\ Consumed <= end
          /\ dot.pc = "done" => dot.dr.r = Rest(dot.wire, end)

\* The handler read one byte of a two-byte body and failed; the stream
\* stands at the byte behind the terminator.
C30_Witness ==
  /\ dot.pc = "done"
  /\ dot.wire = <<"a", LF, ".", CR, LF, "a">>
  /\ dot.out = <<"a">>
  /\ dot.code = ReplyLocalError
  /\ dot.dr.r = <<"a">>

\* What reading with buffers that are never filled returns from reader d on,
\* and the reader it leaves.
RECURSIVE ReadUnbounded(_, _)
ReadUnbounded(d, acc) ==
  LET res == dotRead(d, Len(d.r) + 1)
  IN IF res.err # "nil" THEN [d |-> res.d, out |-> acc \o res.p]
     ELSE ReadUnbounded(res.d, acc \o res.p)

\* C31: once the handler has read the body to its end, with whatever buffer
\* sizes, it holds the bytes, and the stream stands at the point, that reading
\* the same wire with buffers that are never filled gives.
C31_BufferSizeIndependent ==
  (dot.pc = "handler" /\ dot.dr.state = dotStateEOF)
    => LET ref == ReadUnbounded(newDotReader(dot.wire), <<>>)
       IN dot.out = ref.out /\ dot.dr.r = ref.d.r

\* The end of the body is where it is whatever the buffer sizes.
C31_EndIndependent ==
  (dot.pc = "handler" /\ dot.dr.state = dotStateEOF)
    => dot.dr.r = ReadUnbounded(newDotReader(dot.wire), <<>>).d.r

\* The step is a read inside a handler that failed: no reply was written and
\* the transport was not replaced.
HandlerReadFailed ==
  /\ pc \in {"bdat", "handshake"} \cup AuthPcs
  /\ replies' = replies /\ conn'.net = conn.net /\ sess' = sess

\* C32: when a read inside a command handler (a BDAT chunk, an AUTH
\* continuation line, the TLS handshake) fails or times out, the command
\* loop ends: it does not go back to reading command lines.
C32_HandlerReadFailureEndsLoop ==
  [][HandlerReadFailed => pc' = "done"]_vars

\* C33: a command line longer than the limit is answered with a 500 reply
\* and counted as an invalid command.
C33_LongLineIs500 ==
  [][(pc = "cmd" /\ lastCmd'.verb = "<error>" /\ lastCmd'.args = "line too long")
       => /\ Len(replies') >= 1 /\ replies'[1].code = ReplySyntaxError
          /\ sess'.invalidCmds = sess.invalidCmds + 1]_vars

\* C34: every 250 reply to EHLO lists STARTTLS exactly when TLS is configured
\* and the session is not TLS, and AUTH PLAIN LOGIN CRAM-MD5 exactly when an
\* AuthHandler is configured and the session is not authenticated; EHLO
\* changes neither flag.
C34_EhloAdvertises ==
  [][(pc = "cmd" /\ lastCmd'.verb = "EHLO" /\ ~lastCmd'.nul
        /\ Len(replies') >= 1 /\ replies'[1].code = ReplyOK)
       => LET listed == Range(replies'[1].lines) IN
          /\ Len(replies') = 1
          /\ "STARTTLS" \in listed <=> (server.tlsConfig /\ ~sess.tls)
          /\ "AUTH PLAIN LOGIN CRAM-MD5" \in listed
               <=> (server.authHandler /\ ~sess.authenticated)
          /\ sess'.tls = sess.tls /\ sess'.authenticated = sess.authenticated]_vars

\* EHLO after the upgrade and after a successful AUTH: the reply lists
\* neither, on a server that has both configured.
C34_Witness ==
  /\ Issued("EHLO") /\ FirstCode(ReplyOK)
  /\ server.tlsConfig /\ server.authHandler
  /\ sess.tls /\ sess.authenticated
  /\ "STARTTLS" \notin Range(replies[1].lines)
  /\ "AUTH PLAIN LOGIN CRAM-MD5" \notin Range(replies[1].lines)

\* The terminator of the body was read from the wire.
TerminatorRead ==
  LET end == TermEnd(dot.wire, {<<CR, LF>>, <<LF>>})
  IN end # 0 /\ Consumed = end

\* C35: the handler gets io.EOF from the body only when the terminator was
\* read from the wire, and DATA is answered 250 only then.
C35_CleanEndMeansTerminatorRead ==
  /\ (dot.pc = "handler" /\ dot.seen = "EOF") => TerminatorRead
  /\ (dot.pc = "done" /\ dot.code = ReplyOK) => TerminatorRead

\* The session state agrees with the transaction data of session s.
StateAgrees(s) ==
  /\ s.state \in {stateNew, stateGreeted, stateMail, stateRcpt}
  /\ s.state \in {stateNew, stateGreeted} => TxnEmpty(s)
  /\ s.state = stateMail => s.forwardPaths = <<>>
  /\ s.state = stateRcpt => Len(s.forwardPaths) >= 1

\* C36: whenever the loop is about to read a command line the state is New,
\* Greeted, Mail or Rcpt and agrees with the transaction data; the
\* reverse-path changes only to that of a MAIL answered 250 or to the zero
\* path; and the DataHandler is called with the reverse-path and the
\* recipients of the session, of which there is at least one.
C36_StateAgreesWithTransaction ==
  [][/\ pc = "cmd" => StateAgrees(sess)
     /\ pc' = "cmd" => StateAgrees(sess')
     /\ sess'.reversePath # sess.reversePath
          => \/ sess'.reversePath = ZeroPath
             \/ /\ pc = "cmd" /\ lastCmd'.verb = "MAIL" /\ ~lastCmd'.nul
                /\ replies' = <<reply(ReplyOK, EnhancedCodeOtherAddress, "Originator ok")>>
                /\ sess'.reversePath = ParseReversePath(MailPathStr(lastCmd'.args)).val
     /\ onData'.called
          => /\ onData'.from = sess.reversePath /\ onData'.to = sess.forwardPaths
             /\ Len(onData'.to) >= 1
             /\ sess.state \in {stateRcpt, stateData}]_vars

\* A message with the null reverse-path and two recipients was delivered
\* through DATA and the session is back in Greeted with no transaction.
C36_Witness ==
  /\ pc = "cmd" /\ Issued("DATA") /\ onData.called
  /\ onData.from = NullPath /\ Len(onData.to) = 2
  /\ sess.state = stateGreeted /\ TxnEmpty(sess)

\* C37: while the BDAT buffer holds acknowledged bytes, DATA and RCPT are
\* refused, and the buffer is emptied only by the BDAT LAST that delivers it
\* or by EHLO, HELO, RSET or the TLS upgrade.
C37_BdatBytesNotLost ==
  [][(sess.bdatBuffer # <<>>)
       => /\ (pc = "cmd" /\ lastCmd'.verb \in {"DATA", "RCPT"} /\ ~lastCmd'.nul)
               => /\ Len(replies') = 1
                  /\ replies'[1].code \div 100 \in {4, 5}
                  /\ sess' = sess
          /\ (sess'.bdatBuffer = <<>>)
               => \/ lastCmd'.verb = "BDAT" /\ (onData'.called => onData'.body # <<>>)
                  \/ pc = "cmd" /\ lastCmd'.verb \in {"EHLO", "HELO", "RSET"}
                  \/ pc = "handshake"]_vars

\* The step belongs to an AUTH exchange, and it ends with the 235 reply.
AuthStep == (pc = "cmd" /\ lastCmd'.verb = "AUTH" /\ ~lastCmd'.nul) \/ pc \in AuthPcs
Answered235 ==
  /\ Len(replies') >= 1
  /\ replies'[Len(replies')] = reply(ReplyAuthOK, EnhancedCodeOK, "Authentication successful")

\* C38: authenticated becomes true only in the step of an AUTH exchange that
\* ends with 235, which changes nothing else; an exchange that has started
\* and ends otherwise (cancelled, invalid base64, malformed data, unknown
\* mechanism, rejection by the handler, failed read) leaves the session as it
\* was, not authenticated and in Greeted, where a further AUTH with good
\* credentials still succeeds.
C38_AuthenticatedOnlyOn235 ==
  [][/\ (sess'.authenticated /\ ~sess.authenticated)
          => /\ AuthStep /\ Answered235 /\ pc' = "cmd"
             /\ sess.state = stateGreeted
             /\ sess' = [sess EXCEPT !.authenticated = TRUE]
     /\ (/\ AuthStep /\ pc' = "cmd" /\ ~Answered235
         /\ server.authHandler /\ sess.state = stateGreeted /\ ~sess.authenticated)
          => /\ sess' = sess
             /\ handleAUTH(sess', "PLAIN AGdvb2QAcHc=", "ok").sess.authenticated]_vars

\* A LOGIN exchange was cancelled at the password; the session is in Greeted
\* and not authenticated.
C38_Witness ==
  /\ pc = "cmd" /\ Issued("AUTH")
  /\ Len(replies) = 3 /\ replies[3] = cancelled
  /\ sess.state = stateGreeted /\ ~sess.authenticated

(***************************************************************************)
(* Shutdown and Close called several times (server.go:240-275).  Here shut *)
(* is one record per call: [op, pc, result]; pc is "idle" (not made yet),  *)
(* "listener" (quit closed, before ln.Close), "wait" (Shutdown in its      *)
(* select) or "returned"; wg counts the sessions still running.            *)
(***************************************************************************)
NCalls == 4   \* calls of Shutdown or Close made on one server

Callers == 1..NCalls

\* A server that is serving, with one session running, or on which Serve was
\* not called yet (s.listener is nil), and no call made yet.
InitStop ==
  /\ server = Config(FALSE, FALSE, FALSE, MaxInvalid)
  /\ sess = newSession
  /\ conn = [net |-> "tcp", r |-> <<>>]
  /\ alive = TRUE
  /\ pc = "cmd"
  /\ pend = NoPend
  /\ lastCmd = [verb |-> "<greeting>", args |-> "", nul |-> FALSE, via |-> "tcp",
                st |-> stateNew]
  /\ replies = <<reply(ReplyServiceReady, EnhancedCodeZero, "ESMTP ready")>>
  /\ onData = NoCall
  /\ nInvalid = 0
  /\ hist = [awaitHello |-> FALSE, dropped |-> 0]
  /\ maxConnections = 0
  /\ quit = FALSE
  /\ lnClosed = FALSE
  /\ acceptLoop \in {[pc |-> "accept", conn |-> 0, busy |-> 0], [pc |-> "none", conn |-> 0, busy |-> 0]}
  /\ connSem = 0
  /\ wg = IF acceptLoop.pc = "accept" THEN 1 ELSE 0
  /\ shut = [i \in Callers |-> [op |-> "", pc |-> "idle", result |-> ""]]
  /\ conns = [c \in ConnIds |-> NoSession]
  /\ crashed = FALSE
  /\ dot = DotIdle
  /\ wire = [pc |-> "idle"]
  /\ cli = [pc |-> "idle"]

\* A call of Shutdown or Close starts with close(s.quit) (server.go:241,
\* 267), which panics when the channel is closed already.
StopQuit ==
  /\ ~crashed
  /\ \E i \in Callers, op \in {"Shutdown", "Close"} :
       /\ shut[i].pc = "idle"
       /\ IF quit
            THEN crashed' = TRUE /\ UNCHANGED <<quit, shut>>
            ELSE /\ quit' = TRUE
                 /\ shut' = [shut EXCEPT ![i] = [@ EXCEPT !.op = op, !.pc = "listener"]]
                 /\ UNCHANGED crashed
  /\ UNCHANGED <<maxConnections, lnClosed, acceptLoop, connSem, wg, conns>>
  /\ UNCHANGED <<sessionVars, dot, wire, cli>>

\* The call closes the listener, if there is one (server.go:243-249,
\* 268-273): Close returns what ln.Close returned, an error when the listener
\* was closed already, and Shutdown goes on to wait.
StopListener ==
  /\ ~crashed
  /\ \E i \in Callers :
       /\ shut[i].pc = "listener"
       /\ lnClosed' = (lnClosed \/ acceptLoop.pc # "none")
       /\ shut' = [shut EXCEPT ![i] =
                     IF @.op = "Close"
                       THEN [@ EXCEPT !.pc = "returned",
                                      !.result = IF lnClosed THEN "err" ELSE "nil"]
                       ELSE [@ EXCEPT !.pc = "wait"]]
  /\ UNCHANGED <<maxConnections, quit, acceptLoop, connSem, wg, conns, crashed>>
  /\ UNCHANGED <<sessionVars, dot, wire, cli>>

\* The select of Shutdown (server.go:251-262): nil once wg.Wait has returned,
\* the context's error at the deadline.
StopWait ==
  /\ ~crashed
  /\ \E i \in Callers, deadline \in BOOLEAN :
       /\ shut[i].pc = "wait"
       /\ ~deadline => wg = 0
       /\ shut' = [shut EXCEPT ![i] = [@ EXCEPT !.pc = "returned",
                                       !.result = IF deadline THEN "deadline" ELSE "nil"]]
  /\ UNCHANGED <<maxConnections, quit, lnClosed, acceptLoop, connSem, wg, conns, crashed>>
  /\ UNCHANGED <<sessionVars, dot, wire, cli>>

\* A running session ends (server.go:213-221).
SessionDone ==
  /\ ~crashed
  /\ wg > 0
  /\ wg' = wg - 1
  /\ UNCHANGED <<maxConnections, quit, lnClosed, acceptLoop, connSem, shut, conns, crashed>>
  /\ UNCHANGED <<sessionVars, dot, wire, cli>>

NextStop == StopQuit \/ StopListener \/ StopWait \/ SessionDone

SpecStop == InitStop /\ [][NextStop]_vars

\* C39: however many calls of Shutdown and Close are made, in whatever order
\* and however interleaved, none of them crashes the process.
C39_StopCallsDoNotCrash == ~crashed

\* What the closed writer has emitted ends with CRLF . CRLF, or is the
\* terminator alone.
TerminatorAfterCRLF(w) ==
  /\ Len(w) >= 3 /\ SubSeq(w, Len(w) - 2, Len(w)) = <<".", CR, LF>>
  /\ Len(w) > 3 => Len(w) >= 5 /\ SubSeq(w, Len(w) - 4, Len(w) - 3) = <<CR, LF>>

\* The closed writer has emitted one terminator, at the very end, and a call
\* on the closed writer emits nothing, a Write returning an error.
ClosedOnce ==
  /\ dot'.dw.closed
       => TermEnd(dot'.dw.w, {<<CR, LF>>, <<LF>>}) = Len(dot'.dw.w)
  /\ dot.dw.closed
       => /\ dot'.dw = dot.dw
          /\ (dot'.late > dot.late /\ dot'.call.op = "Write")
               => dot'.call.err = "ErrClosedPipe"
          /\ (dot'.late > dot.late /\ dot'.call.op = "Close")
               => dot'.call.err = "nil"

\* C40: over any writes and closes the dot writer emits the terminator once,
\* behind content that ends with CRLF; a second Close emits nothing and every
\* Write after Close fails and emits nothing.
C40_TerminatorOnceAfterCRLF ==
  [][/\ ClosedOnce
     /\ dot'.dw.closed => TerminatorAfterCRLF(dot'.dw.w)]_vars

\* The part of C40 about the calls after Close.
C40_SecondCloseNoOp == [][ClosedOnce]_vars

====
